---------------------------- MODULE Spec2Model ----------------------------
(***************************************************************************)
(* A model of dwdparse: the station identity converter                     *)
(* (src/dwdparse/stations.py) and the format decoders                      *)
(* (src/dwdparse/parsers.py).                                              *)
(*                                                                         *)
(* Every component has its own variables and its own specification; the    *)
(* variables of the other components stay at their initial value.          *)
(*                                                                         *)
(* Conventions: Python dicts are functions with a finite domain, None is   *)
(* the model value None, a Python str that the code slices or pads is a    *)
(* sequence of one-character strings, floats that the code only compares,  *)
(* adds or subtracts are integers.                                         *)
(***************************************************************************)
EXTENDS Integers, Sequences, FiniteSets, TLC

VARIABLES
    \* StationIDConverter (stations.py)
    dwd_to_wmo,     \* self.dwd_to_wmo
    wmo_to_dwd,     \* self.wmo_to_dwd
    st_html,        \* the station list handed to the most recent call
    st_raised,      \* whether the most recent call raised
    st_calls,       \* number of load / parse_station_list calls so far
    st_nvalid,      \* history: valid entries in that list (-1: no list was read)
    st_expect       \* history: the maps of the most recent list with an entry

stationVars ==
    <<dwd_to_wmo, wmo_to_dwd, st_html, st_raised, st_calls, st_nvalid, st_expect>>

VARIABLES
    \* MOSMIXParser._parse_stream (parsers.py)
    mx_timestamps,  \* timestamps
    mx_source,      \* source: the pieces concatenated so far
    mx_status,      \* "running", "done", or the exception that ended the decode
    mx_place,       \* the kml:Placemark handled last (None before the first)
    mx_out,         \* the records yielded while that Placemark was handled
    mx_events,      \* number of 'end' events handled
    mx_last,        \* the kind of the event handled last
    mx_yields       \* per Placemark handled, the number of records yielded

mosmixVars ==
    <<mx_timestamps, mx_source, mx_status, mx_place, mx_out, mx_events, mx_last,
      mx_yields>>

VARIABLES
    \* the cloud cover of one record, as each decoder emits it
    cc_decoder,     \* the decoder that emitted the record ("none" before)
    cc_raw,         \* the value read from the input
    cc_cloud_cover, \* record['cloud_cover']
    cc_count        \* records emitted so far

cloudVars == <<cc_decoder, cc_raw, cc_cloud_cover, cc_count>>

VARIABLES
    \* RADOLANParser.parse (parsers.py)
    rd_names,       \* tar.getnames(), in archive order
    rd_pos,         \* members of sorted(tar.getnames()) handled so far
    rd_status,      \* "running", "done", or the exception that ended the decode
    rd_out,         \* per record yielded: member name, header read, source, timestamp
    rd_buf,         \* the payload read by the last parse_data
    rd_grid         \* the grid of the record yielded last

radolanVars == <<rd_names, rd_pos, rd_status, rd_out, rd_buf, rd_grid>>

VARIABLES
    \* PressureObservationsParser (parsers.py)
    ps_history,     \* lat_lon_history: (date_from, height) in file order
    ps_status,      \* "init", "reading", "done", or the exception raised
    ps_row,         \* the row yielded last: MESS_DATUM, P and P0 as read
    ps_record,      \* the record yielded last: none, or one record
    ps_count        \* rows read so far

pressureVars == <<ps_history, ps_status, ps_row, ps_record, ps_count>>

VARIABLES
    \* PrecipitationObservationsParser.parse_reader (parsers.py)
    pp_status,      \* "init", "reading", "done"
    pp_last,        \* last_row of the next tuple: the row yielded last, as filled
    pp_row,         \* row of the next tuple: read ahead, not yet filled
    pp_rows         \* per row yielded: RS_IND and WRTR as read, WRTR as filled

precipVars == <<pp_status, pp_last, pp_row, pp_rows>>

VARIABLES
    \* TenMinutesObservationsParser.parse, called twice on one file (parsers.py)
    tm_kind,        \* "wind_gusts" or "solar" ("none" before the first call)
    tm_skip,        \* the hours for which self.skip_timestamp holds
    tm_history,     \* lat_lon_history of the meta data file
    tm_input,       \* the rows of the file, as far as the first call read them
    tm_call,        \* 0 before the first call, then 1, then 2
    tm_pos,         \* rows the running call has read
    tm_status,      \* "idle", "reading", "done", or the exception raised
    tm_hour_values, \* hour_values
    tm_out,         \* the records the running call has yielded
    tm_first,       \* the outcome of the first call: none, or status and records
    tm_logger       \* hasattr(self, '_logger')

tenMinutesVars ==
    <<tm_kind, tm_skip, tm_history, tm_input, tm_call, tm_pos, tm_status,
      tm_hour_values, tm_out, tm_first, tm_logger>>

VARIABLES
    \* SYNOPParser.parse (parsers.py)
    sy_file,        \* the messages of the input
    sy_status,      \* "init", "reading", "done", or the exception raised
    sy_message,     \* the message handled last: none, or one message
    sy_log,         \* per message handled: "yielded", "skipped", "incomplete"
                    \* (skipped with the error logged), or the exception raised
    sy_out,         \* the records yielded so far
    sy_count,       \* messages handled so far
    sy_walk         \* the walk of the message handled last: none, or its
                    \* record, contexts and exception

synopVars ==
    <<sy_file, sy_status, sy_message, sy_log, sy_out, sy_count, sy_walk>>

VARIABLES
    \* ObservationsParser.parse_reader (parsers.py), hourly decoders
    ob_history,     \* lat_lon_history: entries in the order of the metadata file
    ob_skip,        \* the timestamps skip_timestamp holds for
    ob_status,      \* "init", "reading", "done", or the exception raised
    ob_rows,        \* the timestamps of the rows read so far, in file order
    ob_out,         \* the records yielded so far
    ob_lookups,     \* calls of _station_params so far
    ob_parsed       \* calls of parse_elements so far

hourlyVars ==
    <<ob_history, ob_skip, ob_status, ob_rows, ob_out, ob_lookups, ob_parsed>>

VARIABLES
    \* get_parser (parsers.py) and its callers
    gp_filename,    \* the file name looked up last, as its characters
    gp_result,      \* the decoder returned for it, or None
    gp_first,       \* the first lookup: none, or its file name and result
    gp_calls        \* lookups so far

lookupVars == <<gp_filename, gp_result, gp_first, gp_calls>>

VARIABLES
    \* the generator a decoder's parse returns, and the handles it opens
    hd_decoder,     \* the decoder, or None before parse is called
    hd_status,      \* "idle", "created", "running", "suspended" (at a yield),
                    \* "exhausted", "closed" (by the caller) or "failed"
    hd_pc,          \* the statement of parse to run next
    hd_open,        \* the handles open, innermost last
    hd_views,       \* the member readers made by tar.extractfile
    hd_items,       \* turns of the record loop begun so far
    hd_opened       \* handles opened so far

handleVars ==
    <<hd_decoder, hd_status, hd_pc, hd_open, hd_views, hd_items, hd_opened>>

vars ==
    <<stationVars, mosmixVars, cloudVars, radolanVars, pressureVars,
      precipVars, tenMinutesVars, synopVars, hourlyVars, lookupVars,
      handleVars>>

\* the variables a component leaves alone
notStation ==
    <<mosmixVars, cloudVars, radolanVars, pressureVars, precipVars,
      tenMinutesVars, synopVars, hourlyVars, lookupVars, handleVars>>
notMosmix ==
    <<stationVars, cloudVars, radolanVars, pressureVars, precipVars,
      tenMinutesVars, synopVars, hourlyVars, lookupVars, handleVars>>
notCloud ==
    <<stationVars, mosmixVars, radolanVars, pressureVars, precipVars,
      tenMinutesVars, synopVars, hourlyVars, lookupVars, handleVars>>
notRadolan ==
    <<stationVars, mosmixVars, cloudVars, pressureVars, precipVars,
      tenMinutesVars, synopVars, hourlyVars, lookupVars, handleVars>>
notPressure ==
    <<stationVars, mosmixVars, cloudVars, radolanVars, precipVars,
      tenMinutesVars, synopVars, hourlyVars, lookupVars, handleVars>>
notPrecip ==
    <<stationVars, mosmixVars, cloudVars, radolanVars, pressureVars,
      tenMinutesVars, synopVars, hourlyVars, lookupVars, handleVars>>
notTenMinutes ==
    <<stationVars, mosmixVars, cloudVars, radolanVars, pressureVars,
      precipVars, synopVars, hourlyVars, lookupVars, handleVars>>
notSynop ==
    <<stationVars, mosmixVars, cloudVars, radolanVars, pressureVars,
      precipVars, tenMinutesVars, hourlyVars, lookupVars, handleVars>>
notHourly ==
    <<stationVars, mosmixVars, cloudVars, radolanVars, pressureVars,
      precipVars, tenMinutesVars, synopVars, lookupVars, handleVars>>
notLookup ==
    <<stationVars, mosmixVars, cloudVars, radolanVars, pressureVars,
      precipVars, tenMinutesVars, synopVars, hourlyVars, handleVars>>
notHandles ==
    <<stationVars, mosmixVars, cloudVars, radolanVars, pressureVars,
      precipVars, tenMinutesVars, synopVars, hourlyVars, lookupVars>>

\* Python's None, once per type of value it stands in for (TLC compares only
\* values of one type): among strings, among padded identifiers, among numbers
None == "None"
NoneId == <<"None">>
NoneNum == -9999

\* dict helpers ------------------------------------------------------------
EmptyDict == [x \in {} |-> None]

DictSet(m, k, v) == [x \in (DOMAIN m) \cup {k} |-> IF x = k THEN v ELSE m[x]]

DictGet(m, k, default) == IF k \in DOMAIN m THEN m[k] ELSE default

SetMax(S) == CHOOSE x \in S : \A y \in S : y <= x


(***************************************************************************)
(* StationIDConverter                                                      *)
(***************************************************************************)
MaxLines == 2       \* lines of a station list
MaxCalls == 3       \* load / parse_station_list calls in one run

STATION_TYPES == {"SY", "MN"}

ZFillWidth == 5

\* str.zfill: pad with zeros on the left, after a leading sign
zfill(s, width) ==
    IF Len(s) >= width THEN s
    ELSE LET pad == [i \in 1..(width - Len(s)) |-> "0"]
         IN  IF Len(s) > 0 /\ s[1] \in {"+", "-"}
             THEN <<s[1]>> \o pad \o Tail(s)
             ELSE pad \o s

\* A line of the list.  row: the line starts with '<tr>' and holds 11 '<td'
\* (all of them closed cells); v1, v2, v3 are values[1], values[2], values[3].
\* "3" and "03" are two spellings of one national identifier.
DwdRaw == {<<"3">>, <<"4", "4">>}
WmoIds == {"10501", "F263"}
OtherLine == [row |-> FALSE, v1 |-> <<>>, v2 |-> "", v3 |-> ""]
ClimateLine == [row |-> TRUE, v1 |-> <<"4", "4">>, v2 |-> "KL", v3 |-> "F263"]
MaritimeLine == [row |-> TRUE, v1 |-> <<"0", "3">>, v2 |-> "MN", v3 |-> "F263"]
Lines ==
    {OtherLine, ClimateLine, MaritimeLine}
        \cup [row : {TRUE}, v1 : DwdRaw, v2 : {"SY"}, v3 : WmoIds]
StationLists == UNION {[1..n -> Lines] : n \in 0..MaxLines}

\* the loop body's two filters (stations.py:34-38)
IsStationLine(line) == line.row /\ line.v2 \in STATION_TYPES

\* the loop of parse_station_list over lines i..Len(html), as the code runs it
RECURSIVE ParseLines(_, _, _)
\* mutant: an identifier that is already in a map keeps its first entry
ParseFromFirstWins(html, i, maps) ==
    IF i > Len(html) THEN maps
    ELSE IF ~IsStationLine(html[i]) THEN ParseLines(html, i + 1, maps)
    ELSE LET dwd_id == zfill(html[i].v1, ZFillWidth)
             wmo_id == html[i].v3
         IN  ParseLines(html, i + 1,
                 [d2w |-> IF dwd_id \in DOMAIN maps.d2w THEN maps.d2w
                          ELSE DictSet(maps.d2w, dwd_id, wmo_id),
                  w2d |-> IF wmo_id \in DOMAIN maps.w2d THEN maps.w2d
                          ELSE DictSet(maps.w2d, wmo_id, dwd_id)])
\* mutant: the reverse map stores values[1] as written, without zfill
ParseFromUnpadded(html, i, maps) ==
    IF i > Len(html) THEN maps
    ELSE IF ~IsStationLine(html[i]) THEN ParseLines(html, i + 1, maps)
    ELSE LET dwd_id == zfill(html[i].v1, ZFillWidth)
             wmo_id == html[i].v3
         IN  ParseLines(html, i + 1,
                 [d2w |-> DictSet(maps.d2w, dwd_id, wmo_id),
                  w2d |-> DictSet(maps.w2d, wmo_id, html[i].v1)])
ParseFrom(html, i, maps) ==
    IF i > Len(html) THEN maps
    ELSE IF ~IsStationLine(html[i]) THEN ParseLines(html, i + 1, maps)
    ELSE LET dwd_id == zfill(html[i].v1, ZFillWidth)
             wmo_id == html[i].v3
         IN  ParseLines(html, i + 1,
                 [d2w |-> DictSet(maps.d2w, dwd_id, wmo_id),
                  w2d |-> DictSet(maps.w2d, wmo_id, dwd_id)])
ParseLines(html, i, maps) == ParseFrom(html, i, maps)

EmptyMaps == [d2w |-> EmptyDict, w2d |-> EmptyDict]

\* the local dicts at the assert of stations.py:43
ParsedMaps(html) == ParseLines(html, 1, EmptyMaps)

\* mutant: the attributes are assigned before the assert
StoredMapsUnguarded(parsed, old) == parsed

\* what a call leaves in the two attributes, given the local dicts: the assert
\* guards the assignment
StoredMaps(parsed, old) == IF parsed.d2w = EmptyDict THEN old ELSE parsed

\* ---- history, stated without the loop: the last entry of an identifier ----
ValidIdx(html) == {i \in 1..Len(html) : IsStationLine(html[i])}
DwdIdAt(html, i) == zfill(html[i].v1, ZFillWidth)
LastOfDwd(html, d) == SetMax({i \in ValidIdx(html) : DwdIdAt(html, i) = d})
LastOfWmo(html, w) == SetMax({i \in ValidIdx(html) : html[i].v3 = w})
ExpectedMaps(html) ==
    [d2w |-> [d \in {DwdIdAt(html, i) : i \in ValidIdx(html)}
                 |-> html[LastOfDwd(html, d)].v3],
     w2d |-> [w \in {html[i].v3 : i \in ValidIdx(html)}
                 |-> DwdIdAt(html, LastOfWmo(html, w))]]

parse_station_list(html) ==
    LET parsed == ParsedMaps(html)
        new == StoredMaps(parsed, [d2w |-> dwd_to_wmo, w2d |-> wmo_to_dwd])
        valid == ValidIdx(html)
    IN  /\ dwd_to_wmo' = new.d2w
        /\ wmo_to_dwd' = new.w2d
        /\ st_raised' = IF parsed.d2w = EmptyDict THEN "AssertionError" ELSE "no"
        /\ st_calls' = st_calls + 1
        /\ st_nvalid' = Cardinality(valid)
        /\ st_expect' = IF valid = {} THEN st_expect ELSE ExpectedMaps(html)
        /\ UNCHANGED st_html

\* load: the list is read from the path or fetched; either may fail
load(readable, html) ==
    IF readable
    THEN parse_station_list(html)
    ELSE /\ st_raised' = "OSError"
         /\ st_calls' = st_calls + 1
         /\ st_nvalid' = -1
         /\ UNCHANGED <<dwd_to_wmo, wmo_to_dwd, st_expect, st_html>>

convert_to_wmo(dwd_id) == DictGet(dwd_to_wmo, dwd_id, None)
convert_to_dwd(wmo_id) == DictGet(wmo_to_dwd, wmo_id, NoneId)

StationInit ==
    /\ dwd_to_wmo = EmptyDict
    /\ wmo_to_dwd = EmptyDict
    /\ st_html = <<>>
    /\ st_raised = "no"
    /\ st_calls = 0
    /\ st_nvalid = -1
    /\ st_expect = EmptyMaps

CallLoad ==
    /\ st_calls < MaxCalls
    /\ \/ load(FALSE, <<>>)
       \/ \E html \in StationLists : load(TRUE, html)
    /\ UNCHANGED notStation
CallParseStationList ==
    /\ st_calls < MaxCalls
    /\ \E html \in StationLists : parse_station_list(html)
    /\ UNCHANGED notStation

StationNext == CallLoad \/ CallParseStationList


\* one load on a converter that holds the maps of an earlier list (or none):
\* the freshly loaded list stays in st_html
PriorLists == {l \in StationLists : Len(l) <= 1}
StationLoadInit ==
    /\ \E prior \in PriorLists :
          /\ dwd_to_wmo = ParsedMaps(prior).d2w
          /\ wmo_to_dwd = ParsedMaps(prior).w2d
          /\ st_expect = ParsedMaps(prior)
    /\ st_html \in StationLists
    /\ st_raised = "no"
    /\ st_calls = 0
    /\ st_nvalid = -1

LoadPending == st_calls = 0 /\ load(TRUE, st_html) /\ UNCHANGED notStation


\* ---- claims about the converter ------------------------------------------

\* C1: after any sequence of load / parse_station_list calls both maps are
\* exactly the maps of the most recent list that held at least one valid
\* entry (both empty if there was none), and a call whose list holds no valid
\* entry raises (and, st_expect being left alone by it, changes neither map).
C1_AtomicReplaceOrFail ==
    /\ dwd_to_wmo = st_expect.d2w
    /\ wmo_to_dwd = st_expect.w2d
    /\ (st_nvalid = 0 => st_raised = "AssertionError")
    /\ (st_nvalid > 0 => st_raised = "no")

\* a failed load after a successful one: the earlier maps are still there
C1_Witness ==
    /\ st_calls >= 2
    /\ st_nvalid = 0
    /\ st_raised = "AssertionError"
    /\ dwd_to_wmo # EmptyDict
    /\ wmo_to_dwd # EmptyDict

Loaded == st_calls = 1 /\ st_raised = "no"

\* C2 as stated: after a load, every valid entry's national identifier
\* survives the round trip convert_to_dwd(convert_to_wmo(d)).
C2_RoundTripEveryEntry ==
    Loaded =>
        \A i \in ValidIdx(st_html) :
            convert_to_dwd(convert_to_wmo(DwdIdAt(st_html, i))) = DwdIdAt(st_html, i)

\* the international identifier of d's last entry is not carried by a later
\* valid entry of another national identifier
OwnsItsWmo(html, d) ==
    \A j \in ValidIdx(html) :
        (j > LastOfDwd(html, d) /\ html[j].v3 = html[LastOfDwd(html, d)].v3)
            => DwdIdAt(html, j) = d

\* C2 amended: the round trip returns d (the zero-padded national identifier)
\* for every valid entry, provided the international identifier of d's last
\* entry is not carried by a later valid entry of another national identifier.
C2_RoundTripLastOwner ==
    Loaded =>
        \A i \in ValidIdx(st_html) :
            LET d == DwdIdAt(st_html, i)
            IN  OwnsItsWmo(st_html, d) => convert_to_dwd(convert_to_wmo(d)) = d

\* two national identifiers share an international one: the later one makes
\* the round trip, and its raw form was padded
C2_Witness ==
    /\ Loaded
    /\ \E i, j \in ValidIdx(st_html) :
          /\ i < j
          /\ st_html[i].v3 = st_html[j].v3
          /\ DwdIdAt(st_html, i) # DwdIdAt(st_html, j)
          /\ st_html[j].v1 # DwdIdAt(st_html, j)
          /\ OwnsItsWmo(st_html, DwdIdAt(st_html, j))
          /\ convert_to_dwd(convert_to_wmo(DwdIdAt(st_html, j))) = DwdIdAt(st_html, j)

\* C3: a national identifier that several valid entries carry resolves to the
\* international identifier of the last of them, and a repeated international
\* identifier to the national identifier of its last entry.
C3_LastDuplicateWins ==
    Loaded =>
        \A i, j \in ValidIdx(st_html) :
            i < j =>
                /\ DwdIdAt(st_html, i) = DwdIdAt(st_html, j)
                     => convert_to_wmo(DwdIdAt(st_html, i))
                          = st_html[LastOfDwd(st_html, DwdIdAt(st_html, i))].v3
                /\ st_html[i].v3 = st_html[j].v3
                     => convert_to_dwd(st_html[i].v3)
                          = DwdIdAt(st_html, LastOfWmo(st_html, st_html[i].v3))

\* a national identifier repeated with two different international ones
C3_Witness ==
    /\ Loaded
    /\ \E i, j \in ValidIdx(st_html) :
          /\ i < j
          /\ DwdIdAt(st_html, i) = DwdIdAt(st_html, j)
          /\ st_html[i].v3 # st_html[j].v3
          /\ convert_to_wmo(DwdIdAt(st_html, i)) = st_html[j].v3


(***************************************************************************)
(* MOSMIXParser                                                            *)
(***************************************************************************)
MaxSteps == 2       \* dwd:TimeStep elements of a document
MaxEvents == 5      \* 'end' events of a document

ELEMENTS ==
    [DD |-> "wind_direction", FF |-> "wind_speed", FX1 |-> "wind_gust_speed",
     N |-> "cloud_cover", PPPP |-> "pressure_msl",
     R101 |-> "precipitation_probability",
     R602 |-> "precipitation_probability_6h", Rad1h |-> "solar",
     RR1c |-> "precipitation", SunD1 |-> "sunshine", Td |-> "dew_point",
     TTT |-> "temperature", VV |-> "visibility", ww |-> "condition"]

\* ---- input: the elements the stream can hold ----
\* float() on the tokens of a dwd:value text that the model uses
float(x) ==
    CASE x = "-5.00" -> -5 [] x = "-1.00" -> -1 [] x = "0.00" -> 0
      [] x = "2.00" -> 2 [] x = "50.00" -> 50 [] x = "120.00" -> 120
      [] x = "180.00" -> 180 [] x = "400.00" -> 400 [] x = "800.00" -> 800
      [] x = "279.15" -> 279 [] x = "280.15" -> 280 [] x = "281.15" -> 281

\* the tokens of a station's arrays are taken in turn from these
Cycle ==
    [TN |-> <<"0.00", "2.00", "-", "50.00">>,
     TTT |-> <<"280.15", "281.15", "-", "279.15">>,
     DD |-> <<"180.00", "400.00", "-", "800.00">>,
     N |-> <<"50.00", "120.00", "-5.00", "-">>,
     RR1c |-> <<"2.00", "-", "-1.00", "0.00">>]
CycleLen == Len(Cycle.DD)
Seeds == 0..(CycleLen - 1)
ValuesOf(code, seed, len) == [i \in 1..len |-> Cycle[code][((seed + i) % CycleLen) + 1]]

\* which of the three elements that sanitize_records reads a station holds
Holdings == {{"DD", "N", "RR1c"}, {"N", "RR1c"}, {"DD", "RR1c"}, {"DD", "N"}, {}}
\* a value array whose length is off by one, or none
Defects == {[code |-> "none", by |-> 0], [code |-> "DD", by |-> 1], [code |-> "N", by |-> -1]}

DocOrder == <<"TN", "TTT", "DD", "N", "RR1c">>

ForecastOf(code, seed, n, defect) ==
    [elementName |-> code,
     value |-> ValuesOf(code, seed,
                  IF code = "TN" THEN n + 1
                  ELSE IF code = defect.code /\ n + defect.by >= 0 THEN n + defect.by
                  ELSE n)]

\* the dwd:Forecast children of a station, in document order: TN (a code
\* ELEMENTS does not know) and TTT always, the others as held
ForecastsOf(held, seed, n, defect) ==
    LET keep == SelectSeq(DocOrder, LAMBDA c : c \in {"TN", "TTT"} \cup held)
    IN  [k \in 1..Len(keep) |-> ForecastOf(keep[k], seed, n, defect)]

Coordinates == <<763, 5197, 60>>    \* lon, lat, height (in hundredths)

PlacemarksFor(n) ==
    {[name |-> "P0036", description |-> "MUENSTER", point |-> FALSE, coords |-> <<>>,
      forecasts |-> ForecastsOf({"DD", "N", "RR1c"}, 0, n, [code |-> "none", by |-> 0])]}
    \cup {[name |-> "P0036", description |-> "MUENSTER", point |-> TRUE,
           coords |-> Coordinates,
           forecasts |-> ForecastsOf(held, seed, n, defect)] :
              held \in Holdings, seed \in Seeds, defect \in Defects}

TimeStepLists == {[i \in 1..n |-> 10 * i] : n \in 0..MaxSteps}


NoTimestamps == <<NoneNum>>     \* timestamps = None
NoSource == NoneId              \* source = None

\* ---- parse_station ----
\* None if x == '-' else converter(x); the converter of every column the model
\* uses is float
ConvertValue(x) == IF x = "-" THEN NoneNum ELSE float(x)

\* the loop over dwd:Forecast (parsers.py:134-147) from element k on: the
\* columns collected, or the failed assert
RECURSIVE CollectColumns(_, _, _, _)
CollectFrom(forecasts, k, columns, n) ==
    IF k > Len(forecasts) THEN [raised |-> "no", columns |-> columns]
    ELSE IF forecasts[k].elementName \notin DOMAIN ELEMENTS
    THEN CollectColumns(forecasts, k + 1, columns, n)
    ELSE LET column == ELEMENTS[forecasts[k].elementName]
             values == [i \in 1..Len(forecasts[k].value)
                           |-> ConvertValue(forecasts[k].value[i])]
         IN  IF Len(values) # n
             THEN [raised |-> "AssertionError", columns |-> columns]
             ELSE CollectColumns(forecasts, k + 1, DictSet(columns, column, values), n)
CollectColumns(forecasts, k, columns, n) == CollectFrom(forecasts, k, columns, n)

base_record(place, source) ==
    [k \in {"observation_type", "source", "lat", "lon", "height",
            "dwd_station_id", "wmo_station_id", "station_name"} |->
        CASE k = "observation_type" -> "forecast"
          [] k = "source" -> source
          [] k = "lat" -> place.coords[2]
          [] k = "lon" -> place.coords[1]
          [] k = "height" -> place.coords[3]
          [] k = "dwd_station_id" -> convert_to_dwd(place.name)
          [] k = "wmo_station_id" -> place.name
          [] k = "station_name" -> place.description]

\* {**base_record, **dict(zip(records, row))} for row i of the transposition
RowRecord(base, timestamps, columns, i) ==
    [k \in DOMAIN base \cup {"timestamp"} \cup DOMAIN columns |->
        IF k = "timestamp" THEN timestamps[i]
        ELSE IF k \in DOMAIN columns THEN columns[k][i]
        ELSE base[k]]

\* a mutant of parse_station: the AttributeError of a Placemark with no
\* coordinates is not caught
ParseStationUncaught(place, timestamps, source) ==
    [raised |-> IF place.point THEN "no" ELSE "AttributeError", records |-> <<>>]

parse_station(place, timestamps, source) ==
    IF ~place.point THEN [raised |-> "no", records |-> <<>>]
    ELSE LET got == CollectColumns(place.forecasts, 1, EmptyDict, Len(timestamps))
         IN  IF got.raised # "no" THEN [raised |-> got.raised, records |-> <<>>]
             ELSE [raised |-> "no",
                   records |-> [i \in 1..Len(timestamps) |->
                       RowRecord(base_record(place, source), timestamps,
                                 got.columns, i)]]

\* ---- sanitize_records ----
\* the truth value of a number or None
Truthy(x) == x # NoneNum /\ x # 0

SanitizedKeys == {"precipitation", "wind_direction", "cloud_cover"}

FixPrecipitation(r) ==
    IF Truthy(r["precipitation"]) /\ r["precipitation"] < 0
    THEN [r EXCEPT !["precipitation"] = NoneNum] ELSE r
FixWindDirection(r) ==
    IF Truthy(r["wind_direction"]) /\ r["wind_direction"] > 360
    THEN [r EXCEPT !["wind_direction"] = @ - 360] ELSE r
FixNegativeCloudCover(r) ==
    IF Truthy(r["cloud_cover"]) /\ r["cloud_cover"] < 0
    THEN [r EXCEPT !["cloud_cover"] = 0] ELSE r
FixOverflownCloudCover(r) ==
    IF Truthy(r["cloud_cover"]) /\ r["cloud_cover"] > 100
    THEN [r EXCEPT !["cloud_cover"] = 100] ELSE r

\* the body of the loop for one record that holds the three keys
SanitizeRecord(r) ==
    FixOverflownCloudCover(FixNegativeCloudCover(FixWindDirection(FixPrecipitation(r))))

\* the generator run to its end: the records it yields, and the KeyError
\* that r['precipitation'], r['wind_direction'] or r['cloud_cover'] raises on
\* the first record that lacks the key
sanitize_records(records) ==
    LET bad == {i \in 1..Len(records) : ~(SanitizedKeys \subseteq DOMAIN records[i])}
        stop == IF bad = {} THEN Len(records) + 1
                ELSE CHOOSE i \in bad : \A j \in bad : i <= j
    IN  [raised |-> IF bad = {} THEN "no" ELSE "KeyError",
         yielded |-> [i \in 1..(stop - 1) |-> SanitizeRecord(records[i])]]


\* ---- _parse_stream: one action per kind of 'end' event ----
MosmixInit ==
    /\ mx_timestamps = NoTimestamps
    /\ mx_source = NoSource
    /\ mx_status = "running"
    /\ mx_place = <<>>
    /\ mx_out = <<>>
    /\ mx_events = 0
    /\ mx_last = "none"
    /\ mx_yields = <<>>

Reading == mx_status = "running" /\ mx_events < MaxEvents

\* dwd:ProductID
ProductIDEnd(text) ==
    /\ Reading
    /\ mx_events' = mx_events + 1
    /\ mx_last' = "ProductID"
    /\ IF mx_source # NoSource
       THEN /\ mx_status' = "AssertionError"
            /\ UNCHANGED mx_source
       ELSE /\ mx_source' = <<text>>
            /\ UNCHANGED mx_status
    /\ UNCHANGED <<mx_timestamps, mx_place, mx_out, mx_yields>>

\* dwd:IssueTime
IssueTimeEnd(text) ==
    /\ Reading
    /\ mx_events' = mx_events + 1
    /\ mx_last' = "IssueTime"
    /\ IF mx_source = NoSource
       THEN /\ mx_status' = "AssertionError"
            /\ UNCHANGED mx_source
       ELSE /\ mx_source' = mx_source \o <<":", text>>
            /\ UNCHANGED mx_status
    /\ UNCHANGED <<mx_timestamps, mx_place, mx_out, mx_yields>>

\* dwd:ForecastTimeSteps
ForecastTimeStepsEnd(steps) ==
    /\ Reading
    /\ mx_events' = mx_events + 1
    /\ mx_last' = "ForecastTimeSteps"
    /\ IF mx_timestamps # NoTimestamps
       THEN /\ mx_status' = "AssertionError"
            /\ UNCHANGED mx_timestamps
       ELSE /\ mx_timestamps' = steps
            /\ UNCHANGED mx_status
    /\ UNCHANGED <<mx_source, mx_place, mx_out, mx_yields>>

\* kml:Placemark: parse_station, then every record sanitize_records yields
PlacemarkEnd(place) ==
    /\ Reading
    /\ mx_events' = mx_events + 1
    /\ mx_last' = "Placemark"
    /\ mx_place' = <<place>>
    /\ IF mx_timestamps = NoTimestamps \/ mx_source = NoSource
       THEN /\ mx_status' = "AssertionError"
            /\ mx_out' = <<>>
       ELSE LET parsed == parse_station(place, mx_timestamps, mx_source)
                clean == sanitize_records(parsed.records)
            IN  IF parsed.raised # "no"
                THEN /\ mx_status' = parsed.raised
                     /\ mx_out' = <<>>
                ELSE /\ mx_status' = IF clean.raised = "no" THEN "running"
                                      ELSE clean.raised
                     /\ mx_out' = clean.yielded
    /\ mx_yields' = Append(mx_yields, Len(mx_out'))
    /\ UNCHANGED <<mx_timestamps, mx_source>>

\* the stream is exhausted
EndOfStream ==
    /\ mx_status = "running"
    /\ mx_status' = "done"
    /\ mx_last' = "end"
    /\ UNCHANGED <<mx_timestamps, mx_source, mx_place, mx_out, mx_events, mx_yields>>

ProductIds == {"MOSMIX"}
IssueTimes == {"2023-04-12T09:00:00.000Z"}
StepsInScope == IF mx_timestamps = NoTimestamps THEN 0 ELSE Len(mx_timestamps)

SeeProductID == (\E t \in ProductIds : ProductIDEnd(t)) /\ UNCHANGED notMosmix
SeeIssueTime == (\E t \in IssueTimes : IssueTimeEnd(t)) /\ UNCHANGED notMosmix
SeeForecastTimeSteps ==
    (\E steps \in TimeStepLists : ForecastTimeStepsEnd(steps)) /\ UNCHANGED notMosmix
SeePlacemark ==
    (\E place \in PlacemarksFor(StepsInScope) : PlacemarkEnd(place))
        /\ UNCHANGED notMosmix
SeeEnd == EndOfStream /\ UNCHANGED notMosmix

MosmixNext ==
    SeeProductID \/ SeeIssueTime \/ SeeForecastTimeSteps \/ SeePlacemark \/ SeeEnd

\* the identity maps a decode runs against: none loaded, or one list loaded
KnownStations == <<[row |-> TRUE, v1 |-> <<"1", "7", "6", "6">>, v2 |-> "SY", v3 |-> "P0036"]>>
ResolverInit ==
    /\ \E list \in {<<>>, KnownStations} :
          /\ dwd_to_wmo = ParsedMaps(list).d2w
          /\ wmo_to_dwd = ParsedMaps(list).w2d
          /\ st_expect = ParsedMaps(list)
    /\ st_html = <<>>
    /\ st_raised = "no"
    /\ st_calls = 0
    /\ st_nvalid = -1


(***************************************************************************)
(* Sanitization of the other decoders, and the cloud cover each emits      *)
(***************************************************************************)
CloudSpan == 10     \* how far below 0 and above 100 an input value may lie
MaxRecords == 2     \* records emitted in one run

\* (x or 0)
OrZero(x) == IF Truthy(x) THEN x ELSE 0

\* SYNOPParser.sanitize_record on the numeric fields of a record
PrecipitationFields == {"precipitation_10", "precipitation_30", "precipitation_60"}
SynopSanitizeRecord(record) ==
    [k \in DOMAIN record |->
        IF k \in PrecipitationFields /\ OrZero(record[k]) < 0 THEN NoneNum
        ELSE IF k = "cloud_cover" /\ OrZero(record[k]) > 100 THEN NoneNum
        ELSE record[k]]

\* CurrentObservationsParser.sanitize_record
CurrentSanitizeRecord(record) ==
    [k \in DOMAIN record |->
        IF k = "cloud_cover" /\ Truthy(record[k]) /\ record[k] > 100 THEN NoneNum
        ELSE IF k = "relative_humidity" /\ Truthy(record[k]) /\ record[k] > 100
        THEN NoneNum
        ELSE IF k = "sunshine" /\ Truthy(record[k]) /\ record[k] > 3600 THEN NoneNum
        ELSE record[k]]

\* ObservationsParser.parse_elements for one element: the field of the row is
\* a number written out; '-999' and the element's ignored values give None
MissingValue == -999
ParseElement(field, ignored) ==
    IF field # MissingValue /\ field \notin ignored THEN field ELSE NoneNum

\* units.eighths_to_percent: 12.5 % per eighth (the integer part)
eighths_to_percent(eighths) == (eighths * 25) \div 2

CloudCoverIgnored == {-1, 9}

\* ---- one record of each decoder ----
CloudInputs == (-CloudSpan..(100 + CloudSpan)) \cup {NoneNum}
\* V_N is written in eighths, with -1, 9 and -999 for no value
EighthsInputs == (0..8) \cup CloudCoverIgnored \cup {MissingValue}

CloudInit ==
    /\ cc_decoder = "none"
    /\ cc_raw = NoneNum
    /\ cc_cloud_cover = NoneNum
    /\ cc_count = 0

Emit(decoder, raw, value) ==
    /\ cc_count < MaxRecords
    /\ cc_decoder' = decoder
    /\ cc_raw' = raw
    /\ cc_cloud_cover' = value
    /\ cc_count' = cc_count + 1

\* MOSMIXParser: the N column of a record, through sanitize_records
ForecastCloudCover ==
    (\E v \in CloudInputs :
        Emit("forecast", v,
             SanitizeRecord([k \in SanitizedKeys |->
                 IF k = "cloud_cover" THEN v ELSE NoneNum])["cloud_cover"]))
        /\ UNCHANGED notCloud

\* SYNOPParser: cloudCoverTotal, through sanitize_record
SynopCloudCover ==
    (\E v \in CloudInputs :
        Emit("synop", v, SynopSanitizeRecord([k \in {"cloud_cover"} |-> v])["cloud_cover"]))
        /\ UNCHANGED notCloud

\* CurrentObservationsParser: cloud_cover_total, through sanitize_record
CurrentCloudCover ==
    (\E v \in CloudInputs :
        Emit("current", v,
             CurrentSanitizeRecord([k \in {"cloud_cover", "relative_humidity", "sunshine"}
                 |-> IF k = "cloud_cover" THEN v ELSE NoneNum])["cloud_cover"]))
        /\ UNCHANGED notCloud

\* CloudCoverObservationsParser: V_N, through parse_elements
HistoricalCloudCover ==
    (\E v \in EighthsInputs :
        LET parsed == ParseElement(v, CloudCoverIgnored)
        IN  Emit("historical", v,
                 IF parsed # NoneNum THEN eighths_to_percent(parsed) ELSE NoneNum))
        /\ UNCHANGED notCloud

CloudNext ==
    ForecastCloudCover \/ SynopCloudCover \/ CurrentCloudCover \/ HistoricalCloudCover

\* C6 as stated: whichever decoder emits the record, its cloud_cover lies in
\* [0, 100] when it is present.
C6_CloudCoverInRange ==
    cc_cloud_cover # NoneNum => (0 <= cc_cloud_cover /\ cc_cloud_cover <= 100)

(***************************************************************************)
(* RADOLANParser                                                           *)
(***************************************************************************)
MaxMembers == 2     \* members of the archive

PRODUCT == "RV"
WMO_ID == "10000"
\* the grid of the class is 1200 x 1100; the model decodes a grid of
HEIGHT == 2
WIDTH == 2
INTERVAL == 5
PRECISION == "E-02"

\* float('1' + PRECISION) as a power of ten
PrecisionExponent(precision) ==
    CASE precision = "E-02" -> -2 [] precision = "E-01" -> -1 [] precision = "E+00" -> 0

\* x * multiplier, kept as <<x, exponent of ten>>; None for a cell without data
NoCell == <<NoneNum, 0>>
NoDataThreshold == 4096

\* ---- parse_data, process_raw_data ----
\* mutant: the rows are kept in on-disk order
ProcessRawDataUnreversed(raw) ==
    [r \in 1..HEIGHT |->
        [c \in 1..WIDTH |->
            LET x == raw[(r - 1) * WIDTH + c]
            IN  IF x < NoDataThreshold THEN <<x, PrecisionExponent(PRECISION)>>
                ELSE NoCell]]

\* mutant: 4096 itself still counts as a value
ProcessRawDataInclusive(raw) ==
    [r \in 1..HEIGHT |->
        [c \in 1..WIDTH |->
            LET x == raw[(HEIGHT - r) * WIDTH + c]
            IN  IF x <= NoDataThreshold THEN <<x, PrecisionExponent(PRECISION)>>
                ELSE NoCell]]

\* array('H').frombytes(buf) on a little-endian host (byte-swapped on others)
RawArray(buf) == [k \in 1..(Len(buf) \div 2) |-> buf[2 * k - 1] + 256 * buf[2 * k]]

\* row by row over reversed(range(HEIGHT)), slicing raw[row*WIDTH:(row+1)*WIDTH]
process_raw_data(raw) ==
    [r \in 1..HEIGHT |->
        [c \in 1..WIDTH |->
            LET x == raw[(HEIGHT - r) * WIDTH + c]
            IN  IF x < NoDataThreshold THEN <<x, PrecisionExponent(PRECISION)>>
                ELSE NoCell]]

parse_data(buf) ==
    IF Len(buf) # 2 * HEIGHT * WIDTH
    THEN [raised |-> "AssertionError", grid |-> <<>>]
    ELSE [raised |-> "no", grid |-> process_raw_data(RawArray(buf))]

\* ---- parse_header ----
\* the header as its fields: product is header[:2], wmo header[8:13], time the
\* instant of header[2:8] + header[13:17] in minutes, gp, by, pr, int and vv
\* the numbers after GP, BY, PR, INT and VV, len the header's length
\* a mutant of parse_header: the interval is not looked at
ParseHeaderAnyInterval(header) ==
    IF /\ header.product = PRODUCT
       /\ header.wmo = WMO_ID
       /\ header.gp = <<HEIGHT, WIDTH>>
       /\ header.by = 2 * HEIGHT * WIDTH + header.len + 1
       /\ header.pr = PRECISION
    THEN [raised |-> "no", product |-> header.product, timestamp |-> header.time,
          offset |-> header.vv]
    ELSE [raised |-> "AssertionError", product |-> header.product,
          timestamp |-> header.time, offset |-> header.vv]

parse_header(header) ==
    IF /\ header.product = PRODUCT
       /\ header.wmo = WMO_ID
       /\ header.gp = <<HEIGHT, WIDTH>>
       /\ header.by = 2 * HEIGHT * WIDTH + header.len + 1
       /\ header.pr = PRECISION
       /\ header.int = INTERVAL
    THEN [raised |-> "no", product |-> header.product, timestamp |-> header.time,
          offset |-> header.vv]
    ELSE [raised |-> "AssertionError", product |-> header.product,
          timestamp |-> header.time, offset |-> header.vv]

\* ---- parse_single ----
\* mutant: the source is built from the timestamp with the offset added
ParseSingleOffsetSource(header, buf) ==
    LET h == parse_header(header)
        d == parse_data(buf)
    IN  IF h.raised # "no" THEN [raised |-> h.raised, read |-> FALSE]
        ELSE IF d.raised # "no" THEN [raised |-> d.raised, read |-> TRUE]
        ELSE [raised |-> "no", read |-> TRUE,
              observation_type |-> "radar",
              source |-> <<"RADOLAN", h.product, h.timestamp + h.offset>>,
              timestamp |-> h.timestamp + h.offset,
              precipitation_5 |-> d.grid]

\* read: whether parse_data got to read the payload
parse_single(header, buf) ==
    LET h == parse_header(header)
        d == parse_data(buf)
    IN  IF h.raised # "no" THEN [raised |-> h.raised, read |-> FALSE]
        ELSE IF d.raised # "no" THEN [raised |-> d.raised, read |-> TRUE]
        ELSE [raised |-> "no", read |-> TRUE,
              observation_type |-> "radar",
              source |-> <<"RADOLAN", h.product, h.timestamp>>,
              timestamp |-> h.timestamp + h.offset,
              precipitation_5 |-> d.grid]

\* ---- parse ----
\* mutant: the members are taken in archive order
SortedUnsorted(names) == names

\* sorted(names) for names that differ from each other
Sorted(names) ==
    [i \in 1..Len(names) |->
        CHOOSE x \in {names[k] : k \in 1..Len(names)} :
            Cardinality({k \in 1..Len(names) : names[k] < x}) = i - 1]

\* ---- input: the members an archive can hold ----
\* member names: numbers, as the names differ in a zero-padded number
MemberNames == 1..MaxMembers
IsInjective(f) == \A i, j \in DOMAIN f : f[i] = f[j] => i = j
NameLists == {l \in UNION {[1..n -> MemberNames] : n \in 0..MaxMembers} : IsInjective(l)}

\* the length of the header: the characters before the end-of-text byte
HeaderLengths == {100}
GoodHeaders ==
    [product : {PRODUCT}, wmo : {WMO_ID}, time : {810, 870}, gp : {<<HEIGHT, WIDTH>>},
     by : {2 * HEIGHT * WIDTH + n + 1 : n \in HeaderLengths}, pr : {PRECISION},
     int : {INTERVAL}, vv : {0, 50}, len : HeaderLengths]
\* headers with one field off: another product, a station's identifier, a
\* 900x900 grid, a byte count one short, another precision or interval
BadHeaders ==
    UNION {{[h EXCEPT !.product = "RW"], [h EXCEPT !.wmo = "10501"],
            [h EXCEPT !.gp = <<900, 900>>], [h EXCEPT !.by = @ - 1],
            [h EXCEPT !.pr = "E-01"], [h EXCEPT !.int = 60]} :
              h \in {g \in GoodHeaders : g.time = 810 /\ g.vv = 0}}
Headers == GoodHeaders \cup BadHeaders

\* the cells of a payload are taken in turn from these 16-bit values
CellCycle == <<0, 1, 4095, 4096, 65535, 300, 7>>
CellSeeds == {0, 2, 4}
CellAt(seed, k) == CellCycle[((seed + k) % Len(CellCycle)) + 1]
\* little-endian bytes of HEIGHT * WIDTH cells, one byte short or long if
\* tail is -1 or 1
PayloadOf(seed, tail) ==
    [b \in 1..(2 * HEIGHT * WIDTH + tail) |->
        IF b > 2 * HEIGHT * WIDTH THEN 0
        ELSE IF b % 2 = 1 THEN CellAt(seed, (b + 1) \div 2) % 256
        ELSE CellAt(seed, b \div 2) \div 256]
Payloads == {PayloadOf(seed, tail) : seed \in CellSeeds, tail \in {-1, 0, 1}}

RadolanInit ==
    /\ rd_names \in NameLists
    /\ rd_pos = 0
    /\ rd_status = "running"
    /\ rd_out = <<>>
    /\ rd_buf = <<>>
    /\ rd_grid = <<>>

RadolanIdle ==
    /\ rd_names = <<>>
    /\ rd_pos = 0
    /\ rd_status = "running"
    /\ rd_out = <<>>
    /\ rd_buf = <<>>
    /\ rd_grid = <<>>

\* one turn of the loop of parse: the next member in name order is extracted,
\* parsed and yielded
ParseMember(header, buf) ==
    /\ rd_status = "running"
    /\ rd_pos < Len(rd_names)
    /\ LET name == Sorted(rd_names)[rd_pos + 1]
           got == parse_single(header, buf)
       IN  /\ rd_pos' = rd_pos + 1
           /\ rd_buf' = IF got.read THEN buf ELSE <<>>
           /\ IF got.raised # "no"
              THEN /\ rd_status' = got.raised
                   /\ rd_grid' = <<>>
                   /\ UNCHANGED rd_out
              ELSE /\ rd_out' = Append(rd_out,
                          [name |-> name, header |-> header, source |-> got.source,
                           timestamp |-> got.timestamp])
                   /\ rd_grid' = got.precipitation_5
                   /\ UNCHANGED rd_status
    /\ UNCHANGED rd_names

\* the loop ends, the archive is closed
ArchiveExhausted ==
    /\ rd_status = "running"
    /\ rd_pos = Len(rd_names)
    /\ rd_status' = "done"
    /\ UNCHANGED <<rd_names, rd_pos, rd_out, rd_buf, rd_grid>>

YieldFrame ==
    (\E header \in Headers, buf \in Payloads : ParseMember(header, buf))
        /\ UNCHANGED notRadolan
FinishArchive == ArchiveExhausted /\ UNCHANGED notRadolan

RadolanNext == YieldFrame \/ FinishArchive

\* ---- claims about the radar decoder --------------------------------------
\* the member handled last was decoded, or failed in parse_data
FrameRead == rd_pos > 0 /\ rd_buf # <<>>

\* the 16-bit value of on-disk cell (row, col), rows and columns from 0
DiskCell(buf, row, col) ==
    buf[2 * (row * WIDTH + col) + 1] + 256 * buf[2 * (row * WIDTH + col) + 2]

\* C7: a decoded frame has HEIGHT rows of WIDTH cells, cell (r, c) is on-disk
\* cell (HEIGHT-1-r, c), absent from 4096 on and raw x 10^-2 below; a payload
\* of another length than 2 x HEIGHT x WIDTH bytes fails and yields no grid.
C7_GridDecoding ==
    FrameRead =>
        IF Len(rd_buf) = 2 * HEIGHT * WIDTH
        THEN /\ rd_status \in {"running", "done"}
             /\ Len(rd_grid) = HEIGHT
             /\ \A r \in 0..(HEIGHT - 1) :
                   /\ Len(rd_grid[r + 1]) = WIDTH
                   /\ \A c \in 0..(WIDTH - 1) :
                        LET raw == DiskCell(rd_buf, HEIGHT - 1 - r, c)
                        IN  rd_grid[r + 1][c + 1]
                              = IF raw >= 4096 THEN NoCell ELSE <<raw, -2>>
        ELSE /\ rd_status = "AssertionError"
             /\ rd_grid = <<>>
             /\ Len(rd_out) < rd_pos

\* a decoded grid with a cell of 4095, one of 4096, and two rows that differ
C7_Witness ==
    /\ FrameRead
    /\ Len(rd_grid) = HEIGHT
    /\ \E r \in 1..HEIGHT, c \in 1..WIDTH :
          rd_grid[r][c] = <<4095, -2>> /\ DiskCell(rd_buf, HEIGHT - r, c - 1) = 4095
    /\ \E r \in 1..HEIGHT, c \in 1..WIDTH :
          rd_grid[r][c] = NoCell /\ DiskCell(rd_buf, HEIGHT - r, c - 1) = 4096
    /\ rd_grid[1] # rd_grid[HEIGHT]

\* C8: every record's timestamp is the header timestamp plus the offset, its
\* source is built from the product code and the header timestamp alone (so
\* frames with one header timestamp share it), and the frames come in
\* ascending member name order.
C8_TimestampSourceOrder ==
    /\ \A i \in 1..Len(rd_out) :
          /\ rd_out[i].timestamp = rd_out[i].header.time + rd_out[i].header.vv
          /\ rd_out[i].source = <<"RADOLAN", rd_out[i].header.product, rd_out[i].header.time>>
    /\ \A i, j \in 1..Len(rd_out) :
          /\ rd_out[i].header.time = rd_out[j].header.time
               => rd_out[i].source = rd_out[j].source
          /\ i < j => rd_out[i].name < rd_out[j].name
    /\ \A i \in 1..Len(rd_out) : \E k \in 1..Len(rd_names) : rd_names[k] = rd_out[i].name

\* two frames of one run, the second with an offset, from an archive that
\* stores the members in descending name order
C8_Witness ==
    /\ Len(rd_out) >= 2
    /\ rd_names[1] > rd_names[2]
    /\ rd_out[1].header.time = rd_out[2].header.time
    /\ rd_out[1].header.vv = 0
    /\ rd_out[2].header.vv > 0
    /\ rd_out[2].timestamp # rd_out[1].timestamp
    /\ rd_out[1].source = rd_out[2].source

\* ---- claims about the forecast decoder -----------------------------------
\* a Placemark with coordinates was handled last, in a document whose product
\* identifier and time steps had been seen
StationHandled ==
    /\ mx_last = "Placemark"
    /\ mx_place[1].point
    /\ mx_timestamps # NoTimestamps
    /\ mx_source # NoSource

KnownForecasts(place) ==
    {k \in 1..Len(place.forecasts) : place.forecasts[k].elementName \in DOMAIN ELEMENTS}

\* C4 as stated: a station with coordinates yields one record per timestamp,
\* record i with timestamp i and the i-th value of every known element (as
\* sanitization leaves it), and a known element whose array has another length
\* fails the decode with no record of that station yielded.
C4_OneRecordPerTimestamp ==
    StationHandled =>
        LET place == mx_place[1]
            n == Len(mx_timestamps)
        IN  IF \A k \in KnownForecasts(place) : Len(place.forecasts[k].value) = n
            THEN /\ mx_status = "running"
                 /\ Len(mx_out) = n
                 /\ \A i \in 1..n :
                       /\ mx_out[i]["timestamp"] = mx_timestamps[i]
                       /\ \A k \in KnownForecasts(place) :
                            LET column == ELEMENTS[place.forecasts[k].elementName]
                            IN  /\ column \in DOMAIN mx_out[i]
                                /\ column \notin SanitizedKeys =>
                                     mx_out[i][column]
                                       = ConvertValue(place.forecasts[k].value[i])
            ELSE /\ mx_status = "AssertionError"
                 /\ mx_out = <<>>

\* C5 as stated: every record yielded has 0 <= wind_direction <= 360 when it
\* has a wind direction.
C5_WindDirectionInRange ==
    \A i \in 1..Len(mx_out) :
        ("wind_direction" \in DOMAIN mx_out[i] /\ mx_out[i]["wind_direction"] # NoneNum)
            => (0 <= mx_out[i]["wind_direction"] /\ mx_out[i]["wind_direction"] <= 360)


\* the six things a header has to carry, on the grid of the model
HeaderAsExpected(header) ==
    /\ header.product = "RV"
    /\ header.wmo = "10000"
    /\ header.gp = <<HEIGHT, WIDTH>>
    /\ header.by = 2 * HEIGHT * WIDTH + header.len + 1
    /\ header.pr = "E-02"
    /\ header.int = 5

\* the decode of a member whose header is off in one of the six
BadHeaderStep ==
    \E header \in Headers, buf \in Payloads :
        ParseMember(header, buf) /\ ~HeaderAsExpected(header)

\* C25: every record yielded comes from a header with the expected product,
\* composite marker, grid, byte count (2 x HEIGHT x WIDTH + header length +
\* 1), precision and interval; the decode of a member whose header is off in
\* any of them ends in a failure and adds no record.
C25_HeaderChecks ==
    /\ [](\A i \in 1..Len(rd_out) : HeaderAsExpected(rd_out[i].header))
    /\ [][BadHeaderStep =>
             /\ rd_status' = "AssertionError"
             /\ rd_out' = rd_out
             /\ rd_grid' = <<>>]_vars

\* a frame was decoded, and the decode of the next member failed before its
\* payload was read
C25_Witness ==
    /\ rd_status = "AssertionError"
    /\ rd_pos = 2
    /\ Len(rd_out) = 1
    /\ HeaderAsExpected(rd_out[1].header)
    /\ rd_buf = <<>>

(***************************************************************************)
(* PressureObservationsParser (parsers.py)                                 *)
(***************************************************************************)
MaxPressureRows == 2

\* units.hpa_to_pa: 100 Pa per hPa
hpa_to_pa(hpa) == hpa * 100

\* ObservationsParser._station_params: the height of the last entry of the
\* history, in its order, before the first entry dated after the timestamp;
\* NoneNum for info = None
RECURSIVE StationParamsFrom(_, _, _, _)
StationParamsFrom(history, i, timestamp, info) ==
    IF i > Len(history) THEN info
    ELSE IF history[i].date > timestamp THEN info
    ELSE StationParamsFrom(history, i + 1, timestamp, history[i].height)

station_params(timestamp, history) == StationParamsFrom(history, 1, timestamp, NoneNum)

\* (1 - .0065 * height / 288.15) ** -5.255 as hi / 10^3 + lo / 10^7
BarometricFactor(height) ==
    CASE height = 0 -> [hi |-> 1000, lo |-> 0]
      [] height = 500 -> [hi |-> 1061, lo |-> 4194]
      [] height = 1000 -> [hi |-> 1127, lo |-> 3820]

\* pressure_station * factor, in thousandths of a Pa
Reduced(pressure_station, height) ==
    LET f == BarometricFactor(height)
    IN  pressure_station * f.hi + (pressure_station * f.lo) \div 10000

\* int(round(x, -1)) for x in thousandths: to the nearest ten, a tie to the
\* even ten
RoundToTen(thousandths) ==
    LET q == thousandths \div 10000
        r == thousandths % 10000
    IN  IF r > 5000 \/ (r = 5000 /\ q % 2 = 1) THEN (q + 1) * 10 ELSE q * 10

\* PressureObservationsParser.parse_elements: the record's elements as a
\* function of their keys
PressureElements(P, P0, height) ==
    LET parsed == [pressure_msl |-> ParseElement(P, {}),
                   pressure_station |-> ParseElement(P0, {})]
        elements == [k \in DOMAIN parsed |->
                        IF parsed[k] # NoneNum THEN hpa_to_pa(parsed[k]) ELSE NoneNum]
        filled ==
            IF ~Truthy(elements.pressure_msl) /\ Truthy(elements.pressure_station)
            THEN [elements EXCEPT
                    !.pressure_msl = RoundToTen(Reduced(elements.pressure_station, height))]
            ELSE elements
    IN  [k \in DOMAIN filled \ {"pressure_station"} |-> filled[k]]

\* ---- input ----
HistoryDates == {1, 3}
HistoryHeights == {0, 500}
HistoryEntries == [date : HistoryDates, height : HistoryHeights]
Histories ==
    {h \in UNION {[1..n -> HistoryEntries] : n \in 0..2} :
        \A i, j \in DOMAIN h : h[i].date = h[j].date => i = j}
RowTimestamps == {0, 2, 4}
\* P and P0 in hPa, as written in the file
ReportedP == {MissingValue, 0, 1013}
ReportedP0 == {MissingValue, 0, 950}

NoRecord == <<>>

PressureInit ==
    /\ ps_history = <<>>
    /\ ps_status = "init"
    /\ ps_row = [timestamp |-> NoneNum, P |-> MissingValue, P0 |-> MissingValue]
    /\ ps_record = NoRecord
    /\ ps_count = 0

\* ObservationsParser.parse_lat_lon_history
parse_lat_lon_history(history) ==
    /\ ps_status = "init"
    /\ ps_history' = history
    /\ ps_status' = "reading"
    /\ UNCHANGED <<ps_row, ps_record, ps_count>>

\* one turn of the loop of ObservationsParser.parse_reader
PressureRow(timestamp, P, P0) ==
    /\ ps_status = "reading"
    /\ ps_count < MaxPressureRows
    /\ ps_count' = ps_count + 1
    /\ ps_row' = [timestamp |-> timestamp, P |-> P, P0 |-> P0]
    /\ LET height == station_params(timestamp, ps_history)
       IN  IF height = NoneNum
           THEN /\ ps_status' = "TypeError"
                /\ ps_record' = NoRecord
           ELSE /\ ps_record' = <<[timestamp |-> timestamp, height |-> height,
                                   elements |-> PressureElements(P, P0, height)]>>
                /\ UNCHANGED ps_status
    /\ UNCHANGED ps_history

PressureEnd ==
    /\ ps_status = "reading"
    /\ ps_status' = "done"
    /\ UNCHANGED <<ps_history, ps_row, ps_record, ps_count>>

ReadHistory == (\E history \in Histories : parse_lat_lon_history(history))
                   /\ UNCHANGED notPressure
ReadPressureRow ==
    (\E timestamp \in RowTimestamps, P \in ReportedP, P0 \in ReportedP0 :
        PressureRow(timestamp, P, P0)) /\ UNCHANGED notPressure
EndPressureRows == PressureEnd /\ UNCHANGED notPressure

PressureNext == ReadHistory \/ ReadPressureRow \/ EndPressureRows

\* C9 as stated: a reported sea-level pressure is emitted converted to Pa; when
\* it is absent and the station-level pressure is present, pressure_msl is the
\* barometric formula at the row's height, to the nearest 10 Pa; the record
\* never holds pressure_station.
C9_PressureMsl ==
    ps_record # NoRecord =>
        LET rec == ps_record[1]
            msl == rec.elements["pressure_msl"]
        IN  /\ "pressure_station" \notin DOMAIN rec.elements
            /\ ps_row.P # MissingValue => msl = ps_row.P * 100
            /\ (ps_row.P = MissingValue /\ ps_row.P0 # MissingValue) =>
                  /\ msl % 10 = 0
                  /\ msl * 1000 - Reduced(ps_row.P0 * 100, rec.height) \in -5000..5000

(***************************************************************************)
(* PrecipitationObservationsParser (parsers.py)                            *)
(***************************************************************************)
MaxRows == 3

\* with_neighbors' None at either end of the rows
NoRow == [RS_IND |-> None, WRTR |-> None]

\* mutant: the row after is asked before the row before
FillWrtrAheadFirst(last_row, row, next_row) ==
    IF row.WRTR # "-999" THEN row
    ELSE IF row.RS_IND = "0" THEN [row EXCEPT !.WRTR = "0"]
    ELSE IF next_row # NoRow /\ next_row.RS_IND = "1"
    THEN [row EXCEPT !.WRTR = next_row.WRTR]
    ELSE IF last_row # NoRow /\ last_row.RS_IND = "1"
    THEN [row EXCEPT !.WRTR = last_row.WRTR]
    ELSE [row EXCEPT !.WRTR = "9"]

\* mutant: a row without precipitation is filled from its neighbors as well
FillWrtrNeighborsOnly(last_row, row, next_row) ==
    IF row.WRTR # "-999" THEN row
    ELSE IF last_row # NoRow /\ last_row.RS_IND = "1"
    THEN [row EXCEPT !.WRTR = last_row.WRTR]
    ELSE IF next_row # NoRow /\ next_row.RS_IND = "1"
    THEN [row EXCEPT !.WRTR = next_row.WRTR]
    ELSE [row EXCEPT !.WRTR = "9"]

\* RS_IND is held stripped
fill_wrtr(last_row, row, next_row) ==
    IF row.WRTR # "-999" THEN row
    ELSE IF row.RS_IND = "0" THEN [row EXCEPT !.WRTR = "0"]
    ELSE IF last_row # NoRow /\ last_row.RS_IND = "1"
    THEN [row EXCEPT !.WRTR = last_row.WRTR]
    ELSE IF next_row # NoRow /\ next_row.RS_IND = "1"
    THEN [row EXCEPT !.WRTR = next_row.WRTR]
    ELSE [row EXCEPT !.WRTR = "9"]

\* ---- input ----
Indicators == {"0", "1", "-999"}
Codes == {"-999", "6", "8"}
PrecipRows == [RS_IND : Indicators, WRTR : Codes]

PrecipInit ==
    /\ pp_status = "init"
    /\ pp_last = NoRow
    /\ pp_row = NoRow
    /\ pp_rows = <<>>

\* the first next() on the zip of with_neighbors: the first row is read
FirstRow(row) ==
    /\ pp_status = "init"
    /\ pp_row' = row
    /\ pp_status' = IF row = NoRow THEN "done" ELSE "reading"
    /\ UNCHANGED <<pp_last, pp_rows>>

\* one tuple of with_neighbors through fill_wrtr: the row after is read (NoRow
\* at the end of the file), the row is filled in place and yielded; the row
\* before is the row object filled one turn ago
FillRow(next_row) ==
    /\ pp_status = "reading"
    /\ Len(pp_rows) < MaxRows
    /\ LET filled == fill_wrtr(pp_last, pp_row, next_row)
       IN  /\ pp_rows' = Append(pp_rows,
                   [RS_IND |-> pp_row.RS_IND, WRTR |-> pp_row.WRTR, filled |-> filled.WRTR])
           /\ pp_last' = filled
    /\ pp_row' = next_row
    /\ pp_status' = IF next_row = NoRow THEN "done" ELSE "reading"

ReadFirstRow == (\E row \in PrecipRows \cup {NoRow} : FirstRow(row)) /\ UNCHANGED notPrecip
YieldRow == (\E next_row \in PrecipRows \cup {NoRow} : FillRow(next_row))
                /\ UNCHANGED notPrecip

PrecipNext == ReadFirstRow \/ YieldRow

\* the rows before and after row i of the file, as fill_wrtr is handed them
RowBefore(i) ==
    IF i = 1 THEN NoRow
    ELSE [RS_IND |-> pp_rows[i - 1].RS_IND, WRTR |-> pp_rows[i - 1].filled]
RowAfter(i) ==
    IF i < Len(pp_rows) THEN [RS_IND |-> pp_rows[i + 1].RS_IND, WRTR |-> pp_rows[i + 1].WRTR]
    ELSE pp_row

\* the code of the neighbor with indicator 1, the row before first; the
\* fallback code otherwise
NeighborCode(i) ==
    IF RowBefore(i) # NoRow /\ RowBefore(i).RS_IND = "1" THEN RowBefore(i).WRTR
    ELSE IF RowAfter(i) # NoRow /\ RowAfter(i).RS_IND = "1" THEN RowAfter(i).WRTR
    ELSE "9"

ReportedByNeighbors(i) ==
    {pp_rows[j].WRTR : j \in {k \in {i - 1, i + 1} \cap (1..Len(pp_rows)) :
                                 pp_rows[k].RS_IND = "1"}}
        \cup (IF i = Len(pp_rows) /\ pp_row # NoRow /\ pp_row.RS_IND = "1"
              THEN {pp_row.WRTR} ELSE {})

\* C28 as stated: the code a row is yielded with is the row's own reported
\* code, the reported code of a neighbor with indicator 1, or a default
\* code, and it is never the missing-value code -999.
C28_NoMissingCode ==
    \A i \in 1..Len(pp_rows) :
        /\ pp_rows[i].filled # "-999"
        /\ pp_rows[i].filled \in {pp_rows[i].WRTR} \cup ReportedByNeighbors(i) \cup {"0", "9"}

(***************************************************************************)
(* TenMinutesObservationsParser and its two decoders (parsers.py)          *)
(***************************************************************************)
MaxTenRows == 3

\* TRIGGER_MINUTE of WindGustsObservationsParser (inherited) and of
\* SolarRadiationObservationsParser
TRIGGER_MINUTE(kind) == IF kind = "solar" THEN 50 ELSE 0

\* units.j_per_cm2_to_j_per_m2
j_per_cm2_to_j_per_m2(x) == x * 10000

\* self.skip_timestamp(timestamp), timestamps in minutes
SkipTimestamp(skip, timestamp) == (timestamp \div 60) \in skip

\* DX_10 of the row measured at t: one direction per row
DirectionOf(t) == t \div 10

\* parse_elements(row, None, None, None) of the two decoders
TenElements(kind, row) ==
    IF kind = "solar"
    THEN LET parsed == ParseElement(row.v, {})
         IN  [solar |-> IF parsed # NoneNum THEN j_per_cm2_to_j_per_m2(parsed)
                        ELSE NoneNum]
    ELSE [wind_gust_direction |-> ParseElement(DirectionOf(row.t), {}),
          wind_gust_speed |-> ParseElement(row.v, {})]

\* the timestamp of the record a trigger row yields
TriggerTimestamp(kind, timestamp) ==
    IF TRIGGER_MINUTE(kind) > 30 THEN timestamp + (60 - TRIGGER_MINUTE(kind))
    ELSE IF TRIGGER_MINUTE(kind) # 0 THEN timestamp - (timestamp % 60)
    ELSE timestamp

\* max(hour_values, key=...): the first of the values with the greatest speed
MaxValue(values) ==
    values[CHOOSE i \in DOMAIN values :
        /\ \A j \in DOMAIN values : values[j].wind_gust_speed <= values[i].wind_gust_speed
        /\ \A j \in 1..(i - 1) : values[j].wind_gust_speed < values[i].wind_gust_speed]

\* the loop of SolarRadiationObservationsParser._make_record from value i on
RECURSIVE SolarSum(_, _, _)
SolarSum(hour_values, i, solar) ==
    IF i > Len(hour_values) THEN solar
    ELSE IF hour_values[i].solar # NoneNum
    THEN SolarSum(hour_values, i + 1, OrZero(solar) + hour_values[i].solar)
    ELSE SolarSum(hour_values, i + 1, solar)

\* _make_record of the two decoders; raised is "TypeError" when
\* _station_params returns None, which cannot be unpacked
make_record(kind, timestamp, hour_values, history) ==
    LET height == station_params(timestamp, history)
        with_speed == SelectSeq(hour_values, LAMBDA x : Truthy(x.wind_gust_speed))
    IN  IF height = NoneNum THEN [raised |-> "TypeError", record |-> <<>>]
        ELSE IF kind = "solar"
        THEN [raised |-> "no",
              record |-> <<[source |-> "Observations:Recent:produkt", height |-> height,
                            timestamp |-> timestamp,
                            solar |-> SolarSum(hour_values, 1, NoneNum)]>>]
        ELSE [raised |-> "no",
              record |-> <<[source |-> "Observations:Recent:produkt", height |-> height,
                            timestamp |-> timestamp,
                            wind_gust_direction |->
                                IF with_speed # <<>>
                                THEN MaxValue(with_speed).wind_gust_direction
                                ELSE NoneNum,
                            wind_gust_speed |->
                                IF with_speed # <<>>
                                THEN MaxValue(with_speed).wind_gust_speed
                                ELSE NoneNum]>>]

\* the station of the file: parse_station_id, and the record fields that
\* ObservationsParser.parse adds
TenStationId == <<"0", "1", "7", "6", "6">>
ParseFields(record) ==
    [observation_type |-> "historical", dwd_station_id |-> TenStationId,
     wmo_station_id |-> convert_to_wmo(TenStationId), record |-> record]

\* mutant: the buffer lives on the instance and outlasts the call
HourValuesKept(left) == left

\* hour_values = [] at the start of parse_reader; left is what the call
\* before left in its buffer
FreshHourValues(left) == <<>>

\* ---- input ----
TenSlots == {50, 60, 110, 120, 170}
TenValues == {MissingValue, 0, 3, 7}
TenRows == [t : TenSlots, v : TenValues]
TenKinds == {"wind_gusts", "solar"}
SkipSets == {{}, {1}, {2}}
TenHistories == {<<[date |-> 0, height |-> 500]>>, <<[date |-> 90, height |-> 500]>>}

NoOutcome == <<>>

TenMinutesInit ==
    /\ tm_kind = "none"
    /\ tm_skip = {}
    /\ tm_history = <<>>
    /\ tm_input = <<>>
    /\ tm_call = 0
    /\ tm_pos = 0
    /\ tm_status = "idle"
    /\ tm_hour_values = <<>>
    /\ tm_out = <<>>
    /\ tm_first = NoOutcome
    /\ tm_logger = FALSE

\* parse is called on a parser whose class and skip_timestamp are given: the
\* logger is created, the history is read, parse_reader starts
TenMinutesParse(kind, skip, history) ==
    /\ tm_call = 0
    /\ tm_kind' = kind
    /\ tm_skip' = skip
    /\ tm_history' = history
    /\ tm_call' = 1
    /\ tm_status' = "reading"
    /\ tm_hour_values' = FreshHourValues(tm_hour_values)
    /\ tm_logger' = TRUE
    /\ UNCHANGED <<tm_input, tm_pos, tm_out, tm_first>>

\* one turn of the loop of parse_reader
TenMinutesRow(row) ==
    /\ tm_status = "reading"
    /\ tm_pos' = tm_pos + 1
    /\ IF tm_call = 1
       THEN /\ Len(tm_input) < MaxTenRows
            /\ IF tm_input = <<>> THEN TRUE ELSE tm_input[Len(tm_input)].t < row.t
            /\ tm_input' = Append(tm_input, row)
       ELSE /\ tm_pos < Len(tm_input)
            /\ row = tm_input[tm_pos + 1]
            /\ UNCHANGED tm_input
    /\ IF SkipTimestamp(tm_skip, row.t + 50)
       THEN UNCHANGED <<tm_hour_values, tm_out, tm_status>>
       ELSE LET hour_values == Append(tm_hour_values, TenElements(tm_kind, row))
                made == make_record(tm_kind, TriggerTimestamp(tm_kind, row.t),
                                    hour_values, tm_history)
            IN  IF row.t % 60 # TRIGGER_MINUTE(tm_kind)
                THEN /\ tm_hour_values' = hour_values
                     /\ UNCHANGED <<tm_out, tm_status>>
                ELSE IF made.raised # "no"
                THEN /\ tm_hour_values' = hour_values
                     /\ tm_status' = made.raised
                     /\ UNCHANGED tm_out
                ELSE /\ tm_out' = Append(tm_out, ParseFields(made.record[1]))
                     /\ tm_hour_values' = <<>>
                     /\ UNCHANGED tm_status
    /\ UNCHANGED <<tm_kind, tm_skip, tm_history, tm_call, tm_first, tm_logger>>

\* the reader is exhausted
TenMinutesEnd ==
    /\ tm_status = "reading"
    /\ tm_call = 2 => tm_pos = Len(tm_input)
    /\ tm_status' = "done"
    /\ UNCHANGED <<tm_kind, tm_skip, tm_history, tm_input, tm_call, tm_pos,
                   tm_hour_values, tm_out, tm_first, tm_logger>>

\* parse is called again on the same instance and the same file
TenMinutesParseAgain ==
    /\ tm_call = 1
    /\ tm_status \notin {"idle", "reading"}
    /\ tm_first' = <<[status |-> tm_status, records |-> tm_out]>>
    /\ tm_call' = 2
    /\ tm_pos' = 0
    /\ tm_out' = <<>>
    /\ tm_status' = "reading"
    /\ tm_hour_values' = FreshHourValues(tm_hour_values)
    /\ UNCHANGED <<tm_kind, tm_skip, tm_history, tm_input, tm_logger>>

StartTenMinutes ==
    (\E kind \in TenKinds, skip \in SkipSets, history \in TenHistories :
        TenMinutesParse(kind, skip, history)) /\ UNCHANGED notTenMinutes
ReadTenMinutesRow == (\E row \in TenRows : TenMinutesRow(row)) /\ UNCHANGED notTenMinutes
EndTenMinutes == TenMinutesEnd /\ UNCHANGED notTenMinutes
StartTenMinutesAgain == TenMinutesParseAgain /\ UNCHANGED notTenMinutes

TenMinutesNext ==
    StartTenMinutes \/ ReadTenMinutesRow \/ EndTenMinutes \/ StartTenMinutesAgain

\* ---- claims about repeated decoding ----
IsPrefix(s, t) == Len(s) <= Len(t) /\ \A i \in 1..Len(s) : s[i] = t[i]

TenRead == SubSeq(tm_input, 1, tm_pos)
TenSkipped(row) == SkipTimestamp(tm_skip, row.t + 50)
IsTrigger(row) == row.t % 60 = TRIGGER_MINUTE(tm_kind)

\* the non-skipped rows at the trigger minute, by their place among the rows
Emitting(rows) == {i \in 1..Len(rows) : IsTrigger(rows[i]) /\ ~TenSkipped(rows[i])}
NthOf(S, k) == CHOOSE i \in S : Cardinality({j \in S : j < i}) = k - 1

\* the place of the last row at the trigger minute before row i, 0 if none
PreviousTrigger(rows, i) == SetMax({0} \cup {j \in 1..(i - 1) : IsTrigger(rows[j])})

\* the values of the non-skipped rows after place lo up to place i
ValuesBetween(rows, lo, i) ==
    LET kept == SelectSeq(SubSeq(rows, lo + 1, i), LAMBDA row : ~TenSkipped(row))
    IN  [j \in 1..Len(kept) |-> TenElements(tm_kind, kept[j])]

\* the record of the trigger row at place i made from the values
RecordFrom(rows, i, values) ==
    ParseFields(make_record(tm_kind, TriggerTimestamp(tm_kind, rows[i].t),
                            values, tm_history).record[1])

\* C26 as stated: the records are, in order, those of the non-skipped rows
\* at the trigger minute, each made from the non-skipped rows after the
\* previous row at the trigger minute up to and including its own; the
\* buffer is empty after an emission.
C26_OneRecordPerTrigger ==
    tm_call >= 1 =>
        LET rows == TenRead
            emitting == Emitting(rows)
        IN  /\ Len(tm_out) = Cardinality(emitting)
            /\ \A k \in 1..Len(tm_out) :
                  LET i == NthOf(emitting, k)
                  IN  tm_out[k] =
                          RecordFrom(rows, i,
                              ValuesBetween(rows, PreviousTrigger(rows, i), i))
            /\ (rows # <<>> /\ Len(rows) \in emitting) => tm_hour_values = <<>>

\* the place of the last row before row i that emitted a record, 0 if none
PreviousEmitting(rows, i) == SetMax({0} \cup {j \in Emitting(rows) : j < i})

\* the buffered values that the k-th record was made from
BufferOf(k) ==
    LET i == NthOf(Emitting(TenRead), k)
    IN  ValuesBetween(TenRead, PreviousEmitting(TenRead, i), i)

RECURSIVE SumFrom(_, _)
SumFrom(numbers, i) ==
    IF i > Len(numbers) THEN 0 ELSE numbers[i] + SumFrom(numbers, i + 1)

\* C27 as stated: a wind-gust record holds the greatest speed of the buffered
\* rows that have one and the direction of a row with that speed, both
\* absent only when no buffered row has a speed; a solar record holds the
\* sum of the buffered values that are present, absent only when none is.
C27_HourlyReduction ==
    \A k \in 1..Len(tm_out) :
        LET buffer == BufferOf(k)
            record == tm_out[k].record
        IN  IF tm_kind = "solar"
            THEN LET present == SelectSeq(buffer, LAMBDA x : x.solar # NoneNum)
                 IN  record.solar =
                         IF present = <<>> THEN NoneNum
                         ELSE SumFrom([j \in 1..Len(present) |-> present[j].solar], 1)
            ELSE LET with_speed ==
                         {j \in 1..Len(buffer) : buffer[j].wind_gust_speed # NoneNum}
                 IN  IF with_speed = {}
                     THEN /\ record.wind_gust_speed = NoneNum
                          /\ record.wind_gust_direction = NoneNum
                     ELSE /\ record.wind_gust_speed =
                                SetMax({buffer[j].wind_gust_speed : j \in with_speed})
                          /\ \E j \in with_speed :
                                /\ buffer[j].wind_gust_speed = record.wind_gust_speed
                                /\ buffer[j].wind_gust_direction =
                                      record.wind_gust_direction

\* the end of the ten minutes a row stands for: a wind-gust row is dated at
\* their end, a solar row at their start
MeasuredUntil(row) == IF tm_kind = "solar" THEN row.t + 10 ELSE row.t

\* the values of the non-skipped rows up to place i that lie in the hour
\* closed by timestamp
ValuesOfHour(rows, i, timestamp) ==
    LET kept == SelectSeq(SubSeq(rows, 1, i),
                          LAMBDA row : /\ ~TenSkipped(row)
                                       /\ timestamp - 60 < MeasuredUntil(row)
                                       /\ MeasuredUntil(row) <= timestamp)
    IN  [j \in 1..Len(kept) |-> TenElements(tm_kind, kept[j])]

\* C30 as stated: every record emitted is dated on a full hour and is the
\* record made from the non-skipped rows of the hour that its timestamp
\* closes, and from no row of an earlier hour.
C30_OneHourPerRecord ==
    \A k \in 1..Len(tm_out) :
        LET i == NthOf(Emitting(TenRead), k)
            timestamp == tm_out[k].record.timestamp
        IN  /\ timestamp % 60 = 0
            /\ tm_out[k] = RecordFrom(TenRead, i, ValuesOfHour(TenRead, i, timestamp))

(***************************************************************************)
(* SYNOPParser (parsers.py)                                                *)
(***************************************************************************)
MaxMessages == 2

mandatory_fields ==
    <<"wmo_station_id", "station_name", "lat", "lon", "height", "timestamp">>

SynopElements ==
    [cloudCoverTotal |-> "cloud_cover",
     heightOfStationGroundAboveMeanSeaLevel |-> "height",
     latitude |-> "lat", longitude |-> "lon",
     meteorologicalOpticalRange |-> "visibility",
     pressureReducedToMeanSeaLevel |-> "pressure_msl",
     stationOrSiteName |-> "station_name"]
height_field == "heightOfSensorAboveLocalGroundOrDeckOfMarinePlatform"
SensorHeight == 2
height_elements ==
    [airTemperature |-> "temperature", dewpointTemperature |-> "dew_point",
     relativeHumidity |-> "relative_humidity"]
time_period_field == "timePeriod"
\* a mutant of time_periods: the six-hour period is accepted as well
TimePeriodsWide == {-10, -30, -60, -360}

time_periods == {-10, -30, -60}
time_period_elements ==
    [globalSolarRadiationIntegratedOverPeriodSpecified |-> "solar",
     windDirection |-> "wind_direction", windSpeed |-> "wind_speed",
     maximumWindGustDirection |-> "wind_gust_direction",
     maximumWindGustSpeed |-> "wind_gust_speed",
     totalPrecipitationOrTotalWaterEquivalent |-> "precipitation",
     totalSunshine |-> "sunshine"]

\* field + f'_{-time_period}' for the three time periods
WindowField(field, time_period) ==
    CASE field = "solar" ->
            (CASE time_period = -10 -> "solar_10" [] time_period = -30 -> "solar_30"
               [] OTHER -> "solar_60")
      [] field = "wind_direction" ->
            (CASE time_period = -10 -> "wind_direction_10"
               [] time_period = -30 -> "wind_direction_30"
               [] OTHER -> "wind_direction_60")
      [] field = "wind_speed" ->
            (CASE time_period = -10 -> "wind_speed_10"
               [] time_period = -30 -> "wind_speed_30" [] OTHER -> "wind_speed_60")
      [] field = "wind_gust_direction" ->
            (CASE time_period = -10 -> "wind_gust_direction_10"
               [] time_period = -30 -> "wind_gust_direction_30"
               [] OTHER -> "wind_gust_direction_60")
      [] field = "wind_gust_speed" ->
            (CASE time_period = -10 -> "wind_gust_speed_10"
               [] time_period = -30 -> "wind_gust_speed_30"
               [] OTHER -> "wind_gust_speed_60")
      [] field = "precipitation" ->
            (CASE time_period = -10 -> "precipitation_10"
               [] time_period = -30 -> "precipitation_30"
               [] OTHER -> "precipitation_60")
      [] field = "sunshine" ->
            (CASE time_period = -10 -> "sunshine_10" [] time_period = -30 -> "sunshine_30"
               [] OTHER -> "sunshine_60")

\* units.synop_current_weather_code_to_condition and
\* units.synop_past_weather_code_to_condition on the codes the model uses
synop_current_weather_code_to_condition(code) ==
    CASE code = 61 -> "rain" [] code = 71 -> "snow" [] code = 45 -> "fog"
      [] OTHER -> None
synop_past_weather_code_to_condition(code) ==
    CASE code = 6 -> "rain" [] code = 7 -> "snow" [] code = 4 -> "fog"
      [] OTHER -> None

\* the text of a station identifier: f"{blockNumber}{stationNumber:03d}" is
\* held as blockNumber * 1000 + stationNumber, a short station name as a
\* number below 1000
IdText(wmo_id) ==
    CASE wmo_id = 10501 -> "10501" [] wmo_id = 263 -> "F263" [] OTHER -> "other"

\* ---- parse_tree ----
IsLeaf(block) == "key" \in DOMAIN block

\* parse_minute: data[part] is looked up part by part until one is None
TimeParts == <<"year", "month", "day", "hour", "minute">>
RECURSIVE MinuteFrom(_, _)
MinuteFrom(data, i) ==
    IF i > Len(TimeParts) THEN "no"
    ELSE IF TimeParts[i] \notin DOMAIN data THEN "KeyError"
    ELSE IF data[TimeParts[i]] = NoneNum THEN "SkipRecord"
    ELSE MinuteFrom(data, i + 1)

parse_minute(st, data, value) ==
    IF MinuteFrom(data, 1) # "no" THEN [st EXCEPT !.raised = MinuteFrom(data, 1)]
    ELSE [st EXCEPT !.record = DictSet(@, "timestamp",
              [i \in 1..Len(TimeParts) |-> data[TimeParts[i]]])]

parse_stationNumber(st, data, value) ==
    IF Truthy(data["stationNumber"]) /\ "blockNumber" \notin DOMAIN data
    THEN [st EXCEPT !.raised = "KeyError"]
    ELSE IF ~Truthy(data["stationNumber"]) /\ "shortStationName" \notin DOMAIN data
    THEN [st EXCEPT !.raised = "KeyError"]
    ELSE LET wmo_id == IF Truthy(data["stationNumber"])
                       \* a null block number is formatted as the text None
                       THEN IF data["blockNumber"] = NoneNum
                            THEN 0 - data["stationNumber"]
                            ELSE data["blockNumber"] * 1000 + data["stationNumber"]
                       ELSE data["shortStationName"]
         IN  [st EXCEPT !.record =
                 DictSet(DictSet(@, "wmo_station_id", wmo_id),
                         "dwd_station_id", convert_to_dwd(IdText(wmo_id)))]

\* record.get('condition') as a truth value
HasCondition(record) == "condition" \in DOMAIN record /\ record["condition"] # None

parse_presentWeather(st, data, value) ==
    IF "timePeriod" \in DOMAIN st.record /\ Truthy(st.record["timePeriod"]) THEN st
    ELSE IF synop_current_weather_code_to_condition(value) # None
    THEN [st EXCEPT !.record =
             DictSet(@, "condition", synop_current_weather_code_to_condition(value))]
    ELSE st

\* a mutant of parse_pastWeather1: a condition that is set is replaced
PastWeatherReplaces(st, data, value) ==
    IF Truthy(value)
    THEN [st EXCEPT !.record =
             DictSet(@, "condition", synop_past_weather_code_to_condition(value))]
    ELSE st

parse_pastWeather1(st, data, value) ==
    IF Truthy(value) /\ ~HasCondition(st.record)
    THEN [st EXCEPT !.record =
             DictSet(@, "condition", synop_past_weather_code_to_condition(value))]
    ELSE st

\* one leaf of the tree: data is the context with the leaf's key set
Leaf(st, data, key, value) ==
    IF key \in DOMAIN SynopElements
    THEN [st EXCEPT !.record = DictSet(@, SynopElements[key], value)]
    ELSE IF key \in DOMAIN height_elements
    THEN IF height_field \notin DOMAIN data THEN [st EXCEPT !.raised = "KeyError"]
         ELSE IF data[height_field] = SensorHeight
         THEN [st EXCEPT !.record = DictSet(@, height_elements[key], value)]
         ELSE st
    ELSE IF key \in DOMAIN time_period_elements
    THEN LET time_period == DictGet(data, time_period_field, -10)
             field == time_period_elements[key]
         IN  IF time_period \in time_periods
             THEN [st EXCEPT !.record =
                      DictSet(@, WindowField(field, time_period),
                              IF field = "sunshine" /\ Truthy(value) THEN value * 60
                              ELSE value)]
             ELSE st
    ELSE IF key = "minute" THEN parse_minute(st, data, value)
    ELSE IF key = "stationNumber" THEN parse_stationNumber(st, data, value)
    ELSE IF key = "presentWeather" THEN parse_presentWeather(st, data, value)
    ELSE IF key = "pastWeather1" THEN parse_pastWeather1(st, data, value)
    ELSE st

\* parse_tree from block i of message on, with context data; an exception
\* ends the walk
\* a mutant of CopyOfBase: a sub-list starts from an empty context
NoBase(base) == EmptyDict

\* data = {} if base is None else base.copy()
CopyOfBase(base) == base

\* path is the place of the list in the message (the indices that lead to
\* it); st.seen collects, per leaf handled, its place and the context it was
\* handled with
RECURSIVE parse_tree(_, _, _, _, _)
parse_tree(st, message, i, data, path) ==
    IF st.raised # "no" \/ i > Len(message) THEN st
    ELSE IF IsLeaf(message[i])
    THEN LET set == DictSet(data, message[i].key, message[i].value)
             seen == Append(st.seen, [path |-> Append(path, i), data |-> set])
         IN  parse_tree(Leaf([st EXCEPT !.seen = seen], set,
                             message[i].key, message[i].value),
                        message, i + 1, set, path)
    ELSE parse_tree(parse_tree(st, message[i].list, 1, CopyOfBase(data),
                               Append(path, i)),
                    message, i + 1, data, path)

\* the walk of a message from an empty record and an empty context
Walk(message) ==
    parse_tree([record |-> [k \in {"observation_type"} |-> "synop"],
                raised |-> "no", logged |-> FALSE, seen |-> <<>>],
               message, 1, EmptyDict, <<>>)

\* record.get(field) is not None
FieldSet(record, field) ==
    /\ field \in DOMAIN record
    /\ field # "timestamp" => record[field] # NoneNum

\* a mutant of is_complete: every record passes
IsCompleteAlways(record) == TRUE

is_complete(record) ==
    \A i \in 1..Len(mandatory_fields) : FieldSet(record, mandatory_fields[i])

parse_message(message) ==
    LET st == Walk(message)
    IN  IF st.raised # "no" THEN st
        ELSE IF is_complete(st.record) THEN st
        ELSE [st EXCEPT !.raised = "SkipRecord", !.logged = TRUE]

\* ---- the messages of an input ----
Node(k, v) == [key |-> k, value |-> v]
Sub(blocks) == [list |-> blocks]

HeaderKeys ==
    <<"stationOrSiteName", "shortStationName", "blockNumber", "stationNumber",
      "latitude", "longitude", "heightOfStationGroundAboveMeanSeaLevel">>
HeaderValue ==
    [stationOrSiteName |-> 77, shortStationName |-> 263, blockNumber |-> 10,
     stationNumber |-> 501, latitude |-> 52, longitude |-> 13,
     heightOfStationGroundAboveMeanSeaLevel |-> 60]
TimeValue == [year |-> 2023, month |-> 5, day |-> 8, hour |-> 13, minute |-> 30]

\* a variant leaves every leaf as it is ("none"), or drops one leaf
\* ("missing"), or gives it the value null ("null")
Variants(keys) ==
    {[leaf |-> "none", how |-> "none"]}
        \cup [leaf : {keys[i] : i \in 1..Len(keys)}, how : {"missing", "null"}]

RECURSIVE Leaves(_, _, _, _)
Leaves(keys, values, variant, i) ==
    IF i > Len(keys) THEN <<>>
    ELSE (IF keys[i] # variant.leaf THEN <<Node(keys[i], values[keys[i]])>>
          ELSE IF variant.how = "null" THEN <<Node(keys[i], NoneNum)>>
          ELSE <<>>)
         \o Leaves(keys, values, variant, i + 1)

\* values within and outside the ranges sanitize_record accepts
SynopValues == {[cloud |-> 50, precipitation |-> 0], [cloud |-> 113, precipitation |-> -1]}

\* a message with one leaf of its header or of its date and time varied
SynopMessage(variant, cloud, precipitation) ==
    Leaves(HeaderKeys, HeaderValue, variant, 1)
    \o <<Sub(Leaves(TimeParts, TimeValue, variant, 1)),
         Sub(<<Node(height_field, SensorHeight), Node("airTemperature", 280)>>),
         Node("cloudCoverTotal", cloud),
         Sub(<<Node(time_period_field, -60),
               Node("totalPrecipitationOrTotalWaterEquivalent", precipitation)>>),
         Node("presentWeather", 61)>>

Unvaried == [leaf |-> "none", how |-> "none"]

\* a message with its header and its date and time complete, then the blocks
WithBlocks(blocks) ==
    Leaves(HeaderKeys, HeaderValue, Unvaried, 1)
    \o <<Sub(Leaves(TimeParts, TimeValue, Unvaried, 1))>> \o blocks

\* sub-lists within sub-lists that set the time period and the sensor height
NestedMessages ==
    {WithBlocks(<<Node(time_period_field, -30),
                  Sub(<<Node(time_period_field, -60), Node("windSpeed", 5),
                        Sub(<<Node(height_field, SensorHeight),
                              Node("airTemperature", 280),
                              Node("windDirection", 90)>>)>>),
                  Node("windSpeed", 7),
                  Sub(<<Node("maximumWindGustSpeed", 9)>>)>>),
     WithBlocks(<<Sub(<<Node(time_period_field, -60), Node("windSpeed", 5)>>),
                  Node("windSpeed", 7),
                  Sub(<<Node(time_period_field, -30)>>),
                  Sub(<<Node("maximumWindGustSpeed", 9)>>)>>)}

\* the three height-qualified leaves after a sensor height, after a null
\* one, or after none
SensorHeights == {SensorHeight, 10, NoneNum}
HeightLeaves ==
    <<Node("airTemperature", 280), Node("dewpointTemperature", 270),
      Node("relativeHumidity", 80)>>
HeightMessages ==
    {WithBlocks(<<Sub(<<Node(height_field, h)>> \o HeightLeaves)>>) : h \in SensorHeights}
        \cup {WithBlocks(<<Sub(HeightLeaves)>>)}

\* a time-window-qualified leaf after a time period, after a null one, or
\* after none
TimePeriods == {-10, -30, -60, -360, NoneNum}
WindowLeaves ==
    {Node("totalSunshine", 5), Node("totalSunshine", 0), Node("totalSunshine", NoneNum),
     Node("windSpeed", 7), Node("totalPrecipitationOrTotalWaterEquivalent", 3)}
WindowMessages ==
    {WithBlocks(<<Sub(<<Node(time_period_field, t), leaf>>)>>) :
        t \in TimePeriods, leaf \in WindowLeaves}
        \cup {WithBlocks(<<Sub(<<leaf>>)>>) : leaf \in WindowLeaves}

\* two or three present-weather and past-weather leaves in every order
PresentCodes == {61, 71, 2}
PastCodes == {6, 0, 3}
WeatherLeaves ==
    {Node("presentWeather", c) : c \in PresentCodes}
        \cup {Node("pastWeather1", c) : c \in PastCodes}
WeatherMessages ==
    {WithBlocks(leaves) : leaves \in [1..2 -> WeatherLeaves] \cup [1..3 -> WeatherLeaves]}

SynopMessages ==
    {SynopMessage(variant, values.cloud, values.precipitation) :
        variant \in Variants(HeaderKeys \o TimeParts), values \in SynopValues}
        \cup NestedMessages \cup HeightMessages \cup WindowMessages
        \cup WeatherMessages

\* ---- SYNOPParser.parse ----
\* the inputs: up to MaxMessages messages, all but one of them the message
\* with every leaf as it is
PlainMessage == SynopMessage(Unvaried, 50, 0)
SynopFiles ==
    {<<>>} \cup
    UNION {{[i \in 1..n |-> IF i = at THEN message ELSE PlainMessage] :
               at \in 1..n, message \in SynopMessages} : n \in 1..MaxMessages}

SynopInit ==
    /\ sy_file = <<>>
    /\ sy_status = "init"
    /\ sy_message = <<>>
    /\ sy_log = <<>>
    /\ sy_out = <<>>
    /\ sy_count = 0
    /\ sy_walk = <<>>

\* bz2.open and the first read: an empty file ends the generator
SynopOpen(file) ==
    /\ sy_status = "init"
    /\ sy_file' = file
    /\ sy_status' = IF file = <<>> THEN "done" ELSE "reading"
    /\ UNCHANGED <<sy_message, sy_log, sy_out, sy_count, sy_walk>>

\* one message: parse_message, sanitize_record, yield; SkipRecord is
\* suppressed, any other exception leaves the generator
SynopRead(message) ==
    /\ sy_status = "reading"
    /\ sy_count < Len(sy_file)
    /\ message = sy_file[sy_count + 1]
    /\ \E st \in {parse_message(message)} :
           /\ sy_message' = <<message>>
           /\ sy_walk' = <<st>>
           /\ sy_count' = sy_count + 1
           /\ sy_log' = Append(sy_log, IF st.raised = "no" THEN "yielded"
                                       ELSE IF st.logged THEN "incomplete"
                                       ELSE IF st.raised = "SkipRecord" THEN "skipped"
                                       ELSE st.raised)
           /\ sy_status' = IF st.raised \in {"no", "SkipRecord"} THEN "reading"
                           ELSE st.raised
           /\ sy_out' = IF st.raised = "no"
                        THEN Append(sy_out, SynopSanitizeRecord(st.record))
                        ELSE sy_out
    /\ UNCHANGED sy_file

SynopEnd ==
    /\ sy_status = "reading"
    /\ sy_count = Len(sy_file)
    /\ sy_status' = "done"
    /\ UNCHANGED <<sy_file, sy_message, sy_log, sy_out, sy_count, sy_walk>>

OpenSynop == (\E file \in SynopFiles : SynopOpen(file)) /\ UNCHANGED notSynop
ReadSynopMessage ==
    (\E message \in {sy_file[i] : i \in 1..Len(sy_file)} : SynopRead(message))
        /\ UNCHANGED notSynop
EndSynop == SynopEnd /\ UNCHANGED notSynop

SynopNext == OpenSynop \/ ReadSynopMessage \/ EndSynop

\* ---- what a message holds, read off its blocks ----
\* the sub-list that holds the date and time leaves: the first one
TimeBlock(message) ==
    message[CHOOSE i \in 1..Len(message) :
                /\ ~IsLeaf(message[i])
                /\ \A j \in 1..(i - 1) : IsLeaf(message[j])].list
HasLeaf(blocks, key) == \E i \in 1..Len(blocks) : IsLeaf(blocks[i]) /\ blocks[i].key = key
LeafValue(blocks, key) ==
    blocks[CHOOSE i \in 1..Len(blocks) : IsLeaf(blocks[i]) /\ blocks[i].key = key].value
Present(blocks, key) == HasLeaf(blocks, key) /\ LeafValue(blocks, key) # NoneNum
AllTimePresent(message) ==
    \A i \in 1..Len(TimeParts) : Present(TimeBlock(message), TimeParts[i])
\* the station number is looked up with no block number in the context
HeaderRaises(message) ==
    Present(message, "stationNumber") /\ ~HasLeaf(message, "blockNumber")
Last(seq) == seq[Len(seq)]

\* C12 as stated: a message handled with year, month, day, hour and minute
\* all present is emitted, if at all, with that instant as its timestamp; a
\* message with no minute leaf, or with one of the five components missing
\* or null, is dropped without raising and the decoder goes on reading.
C12_TimestampOrDropped ==
    (sy_message # <<>> /\ ~HeaderRaises(sy_message[1])) =>
        LET message == sy_message[1]
        IN  /\ (AllTimePresent(message) /\ Last(sy_log) = "yielded") =>
                  /\ Last(sy_out)["timestamp"] =
                        [i \in 1..Len(TimeParts) |->
                            LeafValue(TimeBlock(message), TimeParts[i])]
            /\ ~AllTimePresent(message) =>
                  /\ Last(sy_log) \in {"skipped", "incomplete"}
                  /\ sy_status \in {"reading", "done"}

\* the record of a message after the full walk, where the walk completes
Walked(message) == Walk(message)

\* C13: every record emitted holds a non-null value for each mandatory field;
\* a message that lacks one after the full walk is dropped without raising,
\* it adds no record, and the decoder goes on reading.
C13_MandatoryFields ==
    /\ \A i \in 1..Len(sy_out) : \A j \in 1..Len(mandatory_fields) :
          FieldSet(sy_out[i], mandatory_fields[j])
    /\ Len(sy_out) = Cardinality({i \in 1..Len(sy_log) : sy_log[i] = "yielded"})
    /\ (/\ sy_message # <<>>
        /\ Walked(sy_message[1]).raised = "no"
        /\ \E j \in 1..Len(mandatory_fields) :
              ~FieldSet(Walked(sy_message[1]).record, mandatory_fields[j])) =>
          /\ Last(sy_log) = "incomplete"
          /\ sy_status \in {"reading", "done"}

\* an incomplete message was dropped and the message after it was emitted
C13_Witness ==
    /\ sy_count = 2
    /\ sy_log = <<"incomplete", "yielded">>
    /\ Len(sy_out) = 1
    /\ sy_status = "reading"

ObservationTypes == {"forecast", "synop", "current", "historical", "radar"}

\* C14 as stated, on the records of the synoptic decoder: every record
\* emitted holds the keys observation_type (one of the five types),
\* timestamp and source.
C14_RecordKeys ==
    \A i \in 1..Len(sy_out) :
        /\ {"observation_type", "timestamp", "source"} \subseteq DOMAIN sy_out[i]
        /\ sy_out[i]["observation_type"] \in ObservationTypes

\* ---- the tree walk, leaf by leaf ----
\* the block of a message at a place
RECURSIVE NodeAt(_, _)
NodeAt(message, path) ==
    IF Len(path) = 1 THEN message[path[1]]
    ELSE NodeAt(message[path[1]].list, Tail(path))

\* the leaf at place q lies in the list of the leaf at place p or in a list
\* around it, at or before the place where p or its list occurs there
Visible(q, p) ==
    /\ Len(q) <= Len(p)
    /\ \A k \in 1..(Len(q) - 1) : q[k] = p[k]
    /\ q[Len(q)] <= p[Len(q)]

\* the leaves handled up to the n-th whose key/value the n-th may see
VisibleTo(seen, n) == {m \in 1..n : Visible(seen[m].path, seen[n].path)}

\* C21: the context a leaf is handled with holds exactly the keys set by the
\* leaves before it in its own list and, for each list around it, before the
\* place where the inner list occurs, each with the value of the last such
\* leaf; a key/value set inside a sub-list is in no context outside it.
C21_ContextScoping ==
    sy_walk # <<>> =>
        LET seen == sy_walk[1].seen
            message == sy_message[1]
        IN  \A n \in 1..Len(seen) :
                LET visible == VisibleTo(seen, n)
                    setters(k) == {m \in visible : NodeAt(message, seen[m].path).key = k}
                IN  /\ DOMAIN seen[n].data =
                          {NodeAt(message, seen[m].path).key : m \in visible}
                    /\ \A k \in DOMAIN seen[n].data :
                          \E m \in setters(k) :
                              /\ \A other \in setters(k) : other <= m
                              /\ seen[n].data[k] = NodeAt(message, seen[m].path).value

\* a walk went through a sub-list that set a time period and a sensor
\* height, and a later leaf of the list around it was handled with the time
\* period of its own list and without a sensor height
C21_Witness ==
    /\ sy_walk # <<>>
    /\ sy_walk[1].raised = "no"
    /\ LET seen == sy_walk[1].seen
       IN  \E m, n \in 1..Len(seen) :
              /\ m < n
              /\ Len(seen[m].path) = Len(seen[n].path) + 1
              /\ ~Visible(seen[m].path, seen[n].path)
              /\ DictGet(seen[m].data, time_period_field, NoneNum) = -60
              /\ DictGet(seen[n].data, time_period_field, NoneNum) = -30
              /\ \E h \in 1..Len(seen) : height_field \in DOMAIN seen[h].data
              /\ height_field \notin DOMAIN seen[n].data
    /\ DictGet(sy_walk[1].record, "wind_speed_60", NoneNum) = 5
    /\ DictGet(sy_walk[1].record, "wind_speed_30", NoneNum) = 7

\* the key of the n-th leaf handled
KeyOf(message, seen, n) == NodeAt(message, seen[n].path).key
ValueOf(message, seen, n) == NodeAt(message, seen[n].path).value

\* C22 as stated: a height-qualified leaf sets its field exactly when the
\* sensor height of its context is 2; with no sensor height or another one
\* the field is not set and the walk goes on without raising.
C22_HeightQualified ==
    sy_walk # <<>> =>
        LET st == sy_walk[1]
            seen == st.seen
            message == sy_message[1]
            qualified == {n \in 1..Len(seen) :
                             KeyOf(message, seen, n) \in DOMAIN height_elements}
            at2(n) == DictGet(seen[n].data, height_field, NoneNum) = SensorHeight
        IN  /\ \A key \in DOMAIN height_elements :
                  LET setters == {n \in qualified :
                                     KeyOf(message, seen, n) = key /\ at2(n)}
                  IN  /\ height_elements[key] \in DOMAIN st.record <=> setters # {}
                      /\ \A n \in setters :
                            (\A other \in setters : other <= n) =>
                                st.record[height_elements[key]] =
                                    ValueOf(message, seen, n)
            /\ \A n \in qualified :
                  ~at2(n) => ~(n = Len(seen) /\ st.raised # "no")

\* the window, in minutes, that a context stands for: 10 with no time
\* period set, 0 for a time period that is none of the three
WindowOf(data) ==
    IF time_period_field \notin DOMAIN data THEN 10
    ELSE IF data[time_period_field] \in {-10, -30, -60}
    THEN 0 - data[time_period_field]
    ELSE 0

\* C23: for each time-window-qualified key and each window w of 10, 30 and
\* 60 minutes the record holds the field '<name>_<w>' exactly when a leaf of
\* that key was handled in a context standing for w, with the value of the
\* last such leaf: a sunshine value other than zero (and null) times 60,
\* every other value unchanged.
C23_TimeWindowQualified ==
    sy_walk # <<>> =>
        LET st == sy_walk[1]
            seen == st.seen
            message == sy_message[1]
        IN  \A key \in DOMAIN time_period_elements : \A w \in {10, 30, 60} :
                LET field == time_period_elements[key]
                    setters == {n \in 1..Len(seen) :
                                   /\ KeyOf(message, seen, n) = key
                                   /\ WindowOf(seen[n].data) = w}
                IN  /\ WindowField(field, 0 - w) \in DOMAIN st.record <=> setters # {}
                    /\ \A n \in setters :
                          (\A other \in setters : other <= n) =>
                              LET value == ValueOf(message, seen, n)
                              IN  st.record[WindowField(field, 0 - w)] =
                                      IF field = "sunshine" /\ value \notin {0, NoneNum}
                                      THEN value * 60 ELSE value

\* five minutes of sunshine with no time period in the context were stored
\* as 300 seconds of the 10-minute window
C23_Witness ==
    /\ sy_walk # <<>>
    /\ sy_walk[1].raised = "no"
    /\ LET seen == sy_walk[1].seen
       IN  \E n \in 1..Len(seen) :
              /\ KeyOf(sy_message[1], seen, n) = "totalSunshine"
              /\ ValueOf(sy_message[1], seen, n) = 5
              /\ time_period_field \notin DOMAIN seen[n].data
    /\ DictGet(sy_walk[1].record, "sunshine_10", NoneNum) = 300

\* C24: after a walk that completes, the condition of the record is that of
\* the last present-weather code with a non-null condition when there is
\* one, whatever past-weather leaves come before or after it; else it is
\* that of the first past-weather code other than zero with a non-null
\* condition (no later one replaces it); else no condition is set.
C24_ConditionPrecedence ==
    (sy_walk # <<>> /\ sy_walk[1].raised = "no") =>
        LET st == sy_walk[1]
            seen == st.seen
            message == sy_message[1]
            present == {n \in 1..Len(seen) :
                /\ KeyOf(message, seen, n) = "presentWeather"
                /\ synop_current_weather_code_to_condition(
                       ValueOf(message, seen, n)) # None}
            past == {n \in 1..Len(seen) :
                /\ KeyOf(message, seen, n) = "pastWeather1"
                /\ ValueOf(message, seen, n) \notin {0, NoneNum}
                /\ synop_past_weather_code_to_condition(
                       ValueOf(message, seen, n)) # None}
        IN  IF present # {}
            THEN \E n \in present :
                    /\ \A other \in present : other <= n
                    /\ DictGet(st.record, "condition", None) =
                          synop_current_weather_code_to_condition(
                              ValueOf(message, seen, n))
            ELSE IF past # {}
            THEN \E n \in past :
                    /\ \A other \in past : n <= other
                    /\ DictGet(st.record, "condition", None) =
                          synop_past_weather_code_to_condition(
                              ValueOf(message, seen, n))
            ELSE DictGet(st.record, "condition", None) = None

\* a present-weather code for snow was followed by a past-weather code for
\* rain, and the condition of the record is snow
C24_Witness ==
    /\ sy_walk # <<>>
    /\ sy_walk[1].raised = "no"
    /\ LET seen == sy_walk[1].seen
       IN  \E m, n \in 1..Len(seen) :
              /\ m < n
              /\ KeyOf(sy_message[1], seen, m) = "presentWeather"
              /\ ValueOf(sy_message[1], seen, m) = 71
              /\ KeyOf(sy_message[1], seen, n) = "pastWeather1"
              /\ ValueOf(sy_message[1], seen, n) = 6
    /\ DictGet(sy_walk[1].record, "condition", None) = "snow"

(***************************************************************************)
(* ObservationsParser (parsers.py): the hourly decoders, on the cloud      *)
(* cover decoder                                                           *)
(***************************************************************************)
MaxHourlyRows == 3

NoInfo == <<>>

\* ObservationsParser._station_params: the value of the last entry of the
\* history, in its order, before the first entry dated after the timestamp;
\* NoInfo for info = None, else the one value
RECURSIVE StationInfoFrom(_, _, _, _)
StationInfoFrom(history, i, timestamp, info) ==
    IF i > Len(history) THEN info
    ELSE IF history[i].date > timestamp THEN info
    ELSE StationInfoFrom(history, i + 1, timestamp, <<history[i].info>>)

StationInfo(timestamp, history) == StationInfoFrom(history, 1, timestamp, NoInfo)

\* skip_timestamp, as set on the instance
skip_timestamp(skip, timestamp) == timestamp \in skip

\* CloudCoverObservationsParser.parse_elements
HourlyElements(V_N) ==
    LET parsed == ParseElement(V_N, CloudCoverIgnored)
    IN  [cloud_cover |-> IF parsed # NoneNum THEN eighths_to_percent(parsed)
                         ELSE NoneNum]

\* the record of a row: parse_reader's dict within the one of parse
HourlyRecord(timestamp, info, V_N) ==
    [observation_type |-> "historical",
     dwd_station_id |-> TenStationId,
     wmo_station_id |-> convert_to_wmo(TenStationId),
     source |-> "Observations:Recent:produkt",
     lat |-> info.lat, lon |-> info.lon, height |-> info.height,
     station_name |-> info.station_name,
     timestamp |-> timestamp,
     cloud_cover |-> HourlyElements(V_N).cloud_cover]

\* ---- input ----
StationInfos ==
    {[lat |-> 52, lon |-> 13, height |-> 0, station_name |-> "Alt"],
     [lat |-> 53, lon |-> 14, height |-> 500, station_name |-> "Neu"]}
HourlyEntries == [date : HistoryDates, info : StationInfos]
\* the entries of a metadata file, none or in date order
HourlyHistories ==
    {h \in UNION {[1..n -> HourlyEntries] : n \in 0..2} :
        \A i, j \in DOMAIN h : i < j => h[i].date < h[j].date}
HourlySkips == {{}, {2}, {0, 4}}
HourlyValues == {MissingValue, 4}

HourlyInit ==
    /\ ob_history = <<>>
    /\ ob_skip = {}
    /\ ob_status = "init"
    /\ ob_rows = <<>>
    /\ ob_out = <<>>
    /\ ob_lookups = 0
    /\ ob_parsed = 0

\* ObservationsParser.parse up to the first row, with skip_timestamp set on
\* the instance
HourlyParse(skip, history) ==
    /\ ob_status = "init"
    /\ ob_skip' = skip
    /\ ob_history' = history
    /\ ob_status' = "reading"
    /\ UNCHANGED <<ob_rows, ob_out, ob_lookups, ob_parsed>>

\* one turn of the loop of parse_reader: unpacking info = None raises
\* TypeError
HourlyRow(timestamp, V_N) ==
    /\ ob_status = "reading"
    /\ Len(ob_rows) < MaxHourlyRows
    /\ ob_rows' = Append(ob_rows, timestamp)
    /\ IF skip_timestamp(ob_skip, timestamp)
       THEN UNCHANGED <<ob_status, ob_out, ob_lookups, ob_parsed>>
       ELSE /\ ob_lookups' = ob_lookups + 1
            /\ IF StationInfo(timestamp, ob_history) = NoInfo
               THEN /\ ob_status' = "TypeError"
                    /\ UNCHANGED <<ob_out, ob_parsed>>
               ELSE /\ ob_parsed' = ob_parsed + 1
                    /\ ob_out' = Append(ob_out,
                          HourlyRecord(timestamp,
                                       StationInfo(timestamp, ob_history)[1], V_N))
                    /\ UNCHANGED ob_status
    /\ UNCHANGED <<ob_history, ob_skip>>

HourlyEnd ==
    /\ ob_status = "reading"
    /\ ob_status' = "done"
    /\ UNCHANGED <<ob_history, ob_skip, ob_rows, ob_out, ob_lookups, ob_parsed>>

StartHourly ==
    (\E skip \in HourlySkips, history \in HourlyHistories : HourlyParse(skip, history))
        /\ UNCHANGED notHourly
ReadHourlyRow ==
    (\E timestamp \in RowTimestamps, V_N \in HourlyValues : HourlyRow(timestamp, V_N))
        /\ UNCHANGED notHourly
EndHourly == HourlyEnd /\ UNCHANGED notHourly

HourlyNext == StartHourly \/ ReadHourlyRow \/ EndHourly

\* the entries of the history dated up to a timestamp
EntriesUpTo(history, timestamp) ==
    {i \in 1..Len(history) : history[i].date <= timestamp}
LatestUpTo(history, timestamp) ==
    history[CHOOSE i \in EntriesUpTo(history, timestamp) :
               \A j \in EntriesUpTo(history, timestamp) :
                   history[j].date <= history[i].date]

\* C15 as stated: a row that is not skipped is emitted with the lat, lon,
\* height and station_name of the history entry with the latest date up to
\* its timestamp; with no such entry the row does not raise.
C15_StationParams ==
    (ob_rows # <<>> /\ ~skip_timestamp(ob_skip, Last(ob_rows))) =>
        LET timestamp == Last(ob_rows)
        IN  /\ ob_status \in {"reading", "done"}
            /\ EntriesUpTo(ob_history, timestamp) # {} =>
                  /\ ob_out # <<>>
                  /\ Last(ob_out).timestamp = timestamp
                  /\ LET info == LatestUpTo(ob_history, timestamp).info
                         rec == Last(ob_out)
                     IN  /\ rec.lat = info.lat
                         /\ rec.lon = info.lon
                         /\ rec.height = info.height
                         /\ rec.station_name = info.station_name

RECURSIVE Kept(_, _)
Kept(rows, skip) ==
    IF rows = <<>> THEN <<>>
    ELSE (IF skip_timestamp(skip, Head(rows)) THEN <<>> ELSE <<Head(rows)>>)
         \o Kept(Tail(rows), skip)

\* C16 as stated: the records emitted are, in file order, those of the rows
\* skip_timestamp does not hold for; no lookup and no element parsing is
\* done for a skipped row.
C16_SkipBeforeLookup ==
    /\ [i \in 1..Len(ob_out) |-> ob_out[i].timestamp] = Kept(ob_rows, ob_skip)
    /\ ob_lookups = Len(Kept(ob_rows, ob_skip))
    /\ ob_parsed = Len(Kept(ob_rows, ob_skip))

(***************************************************************************)
(* get_parser (parsers.py)                                                 *)
(***************************************************************************)
MaxLookups == 2

\* ---- the patterns of the table, as sequences of items ----
Digits == {"0", "1", "2", "3", "4", "5", "6", "7", "8", "9"}
Letters ==
    {"a", "b", "c", "d", "e", "f", "g", "h", "i", "j", "k", "l", "m", "n", "o",
     "p", "q", "r", "s", "t", "u", "v", "w", "x", "y", "z", "A", "B", "C", "D",
     "E", "F", "G", "H", "I", "J", "K", "L", "M", "N", "O", "P", "Q", "R", "S",
     "T", "U", "V", "W", "X", "Y", "Z"}

\* \d, \w and . on the characters of the file names
InClass(cls, c) ==
    CASE cls = "digit" -> c \in Digits
      [] cls = "word" -> c \in Digits \cup Letters \cup {"_"}
      [] cls = "dot" -> c # "\n"

\* literal text; one of several texts, (S|L) or (_240)?; a class repeated
\* min to max times, \w{5}; a class repeated min times or more, \d+ or .*;
\* the anchor $
Lit(text) == [kind |-> "lit", text |-> text]
Alt(texts) == [kind |-> "alt", texts |-> texts]
Rep(cls, min, max) == [kind |-> "rep", cls |-> cls, min |-> min, max |-> max]
Many(cls, min) == [kind |-> "many", cls |-> cls, min |-> min]
End == [kind |-> "end"]

\* the table of get_parser, in its order: each pattern as its items

parsers ==
    <<[parser |-> "RADOLANParser",
       pattern |->
        <<Lit(<<"D", "E", "1", "2", "0", "0", "_", "R", "V">>)>>],
      [parser |-> "MOSMIXParser",
       pattern |->
        <<Lit(<<"M", "O", "S", "M", "I", "X", "_">>),
          Alt({<<"S">>, <<"L">>}),
          Lit(<<"_", "L", "A", "T", "E", "S", "T">>),
          Alt({<<>>, <<"_", "2", "4", "0">>}),
          Lit(<<".", "k", "m", "z">>),
          End>>],
      [parser |-> "SYNOPParser",
       pattern |->
        <<Lit(<<"Z", "_", "_", "C", "_", "E", "D", "Z", "W", "_">>),
          Many("digit", 1),
          Lit(<<"_">>),
          Many("dot", 0),
          Lit(<<".", "j", "s", "o", "n", ".", "b", "z", "2">>),
          End>>],
      [parser |-> "CAPParser",
       pattern |->
        <<Lit(<<"Z", "_", "C", "A", "P", "_">>),
          Many("dot", 0),
          Lit(<<".", "z", "i", "p">>)>>],
      [parser |-> "CurrentObservationsParser",
       pattern |->
        <<Rep("word", 5, 5),
          Lit(<<"-", "B", "E", "O", "B", ".", "c", "s", "v">>),
          End>>],
      [parser |-> "WindObservationsParser",
       pattern |->
        <<Lit(<<"s", "t", "u", "n", "d", "e", "n", "w", "e", "r", "t", "e",
                "_", "F", "F", "_">>)>>],
      [parser |-> "CloudCoverObservationsParser",
       pattern |->
        <<Lit(<<"s", "t", "u", "n", "d", "e", "n", "w", "e", "r", "t", "e",
                "_", "N", "_">>)>>],
      [parser |-> "PressureObservationsParser",
       pattern |->
        <<Lit(<<"s", "t", "u", "n", "d", "e", "n", "w", "e", "r", "t", "e",
                "_", "P", "0", "_">>)>>],
      [parser |-> "PrecipitationObservationsParser",
       pattern |->
        <<Lit(<<"s", "t", "u", "n", "d", "e", "n", "w", "e", "r", "t", "e",
                "_", "R", "R", "_">>)>>],
      [parser |-> "SunshineObservationsParser",
       pattern |->
        <<Lit(<<"s", "t", "u", "n", "d", "e", "n", "w", "e", "r", "t", "e",
                "_", "S", "D", "_">>)>>],
      [parser |-> "DewPointObservationsParser",
       pattern |->
        <<Lit(<<"s", "t", "u", "n", "d", "e", "n", "w", "e", "r", "t", "e",
                "_", "T", "D", "_">>)>>],
      [parser |-> "TemperatureObservationsParser",
       pattern |->
        <<Lit(<<"s", "t", "u", "n", "d", "e", "n", "w", "e", "r", "t", "e",
                "_", "T", "U", "_">>)>>],
      [parser |-> "VisibilityObservationsParser",
       pattern |->
        <<Lit(<<"s", "t", "u", "n", "d", "e", "n", "w", "e", "r", "t", "e",
                "_", "V", "V", "_">>)>>],
      [parser |-> "WindGustsObservationsParser",
       pattern |->
        <<Lit(<<"1", "0", "m", "i", "n", "u", "t", "e", "n", "w", "e", "r",
                "t", "e", "_", "e", "x", "t", "r", "e", "m", "a", "_", "w",
                "i", "n", "d", "_">>)>>],
      [parser |-> "SolarRadiationObservationsParser",
       pattern |->
        <<Lit(<<"1", "0", "m", "i", "n", "u", "t", "e", "n", "w", "e", "r",
                "t", "e", "_", "S", "O", "L", "A", "R", "_">>)>>]>>

\* whether text stands in name at position p
TextAt(name, p, text) ==
    /\ p + Len(text) <= Len(name) + 1
    /\ \A k \in 1..Len(text) : name[p + k - 1] = text[k]

\* the positions an item can end at when it starts at one of the positions
Step(item, name, positions) ==
    CASE item.kind = "lit" ->
            {p + Len(item.text) : p \in {x \in positions : TextAt(name, x, item.text)}}
      [] item.kind = "alt" ->
            UNION {{p + Len(text) : p \in {x \in positions : TextAt(name, x, text)}} :
                      text \in item.texts}
      [] item.kind \in {"rep", "many"} ->
            UNION {{e \in (p + item.min)..(Len(name) + 1) :
                       /\ item.kind = "rep" => e <= p + item.max
                       /\ \A k \in p..(e - 1) : InClass(item.cls, name[k])} :
                      p \in positions}
      \* $: at the end, or before a newline that ends the name
      [] item.kind = "end" ->
            {p \in positions :
                \/ p = Len(name) + 1
                \/ p = Len(name) /\ name[p] = "\n"}

RECURSIVE MatchFrom(_, _, _, _)
MatchFrom(pattern, i, name, positions) ==
    IF i > Len(pattern) THEN positions
    ELSE MatchFrom(pattern, i + 1, name, Step(pattern[i], name, positions))

\* re.match: the pattern matches the name from its first character
Match(pattern, name) == MatchFrom(pattern, 1, name, {1}) # {}

\* re.search: the pattern matches the name from some character
Search(pattern, name) == MatchFrom(pattern, 1, name, 1..(Len(name) + 1)) # {}

\* the loop of get_parser from entry i on
RECURSIVE GetParserFrom(_, _)
GetParserFrom(filename, i) ==
    IF i > Len(parsers) THEN None
    ELSE IF Match(parsers[i].pattern, filename) THEN parsers[i].parser
    ELSE GetParserFrom(filename, i + 1)

\* a mutant of get_parser: patterns match anywhere in the name
RECURSIVE GetParserSearchFrom(_, _)
GetParserSearchFrom(filename, i) ==
    IF i > Len(parsers) THEN None
    ELSE IF Search(parsers[i].pattern, filename) THEN parsers[i].parser
    ELSE GetParserSearchFrom(filename, i + 1)
GetParserSearch(filename) == GetParserSearchFrom(filename, 1)

get_parser(filename) == GetParserFrom(filename, 1)

\* ---- input ----
\* file names as their characters: those of test_get_parser (test_parsers.py),
\* the station and product parts shortened

TestNames ==
    {<<"1", "0", "m", "i", "n", "u", "t", "e", "n", "w", "e", "r", "t", "e",
       "_", "e", "x", "t", "r", "e", "m", "a", "_", "w", "i", "n", "d", "_",
       "0", "0", "4", "2", "7", "_", "a", "k", "t", ".", "z", "i", "p">>,
     <<"1", "0", "m", "i", "n", "u", "t", "e", "n", "w", "e", "r", "t", "e",
       "_", "S", "O", "L", "A", "R", "_", "0", "1", "7", "6", "6", "_", "n",
       "o", "w", ".", "z", "i", "p">>,
     <<"s", "t", "u", "n", "d", "e", "n", "w", "e", "r", "t", "e", "_", "F",
       "F", "_", "0", "0", "0", "1", "1", "_", "a", "k", "t", ".", "z", "i",
       "p">>,
     <<"s", "t", "u", "n", "d", "e", "n", "w", "e", "r", "t", "e", "_", "N",
       "_", "0", "1", "7", "6", "6", "_", "a", "k", "t", ".", "z", "i", "p">>,
     <<"s", "t", "u", "n", "d", "e", "n", "w", "e", "r", "t", "e", "_", "P",
       "0", "_", "0", "0", "0", "9", "6", "_", "a", "k", "t", ".", "z", "i",
       "p">>,
     <<"s", "t", "u", "n", "d", "e", "n", "w", "e", "r", "t", "e", "_", "R",
       "R", "_", "0", "0", "1", "0", "2", "_", "a", "k", "t", ".", "z", "i",
       "p">>,
     <<"s", "t", "u", "n", "d", "e", "n", "w", "e", "r", "t", "e", "_", "S",
       "D", "_", "0", "0", "1", "2", "5", "_", "a", "k", "t", ".", "z", "i",
       "p">>,
     <<"s", "t", "u", "n", "d", "e", "n", "w", "e", "r", "t", "e", "_", "T",
       "D", "_", "0", "1", "7", "6", "6", ".", "z", "i", "p">>,
     <<"s", "t", "u", "n", "d", "e", "n", "w", "e", "r", "t", "e", "_", "T",
       "U", "_", "0", "0", "1", "6", "1", "_", "a", "k", "t", ".", "z", "i",
       "p">>,
     <<"s", "t", "u", "n", "d", "e", "n", "w", "e", "r", "t", "e", "_", "V",
       "V", "_", "0", "0", "1", "6", "1", "_", "a", "k", "t", ".", "z", "i",
       "p">>,
     <<"M", "O", "S", "M", "I", "X", "_", "S", "_", "L", "A", "T", "E", "S",
       "T", "_", "2", "4", "0", ".", "k", "m", "z">>,
     <<"M", "O", "S", "M", "I", "X", "_", "L", "_", "L", "A", "T", "E", "S",
       "T", ".", "k", "m", "z">>,
     <<"D", "E", "1", "2", "0", "0", "_", "R", "V", "2", "3", "0", "5", "0",
       "8", "1", "3", "3", "0", ".", "t", "a", "r", ".", "b", "z", "2">>,
     <<"K", "6", "1", "1", "_", "-", "B", "E", "O", "B", ".", "c", "s", "v">>,
     <<"Z", "_", "_", "C", "_", "E", "D", "Z", "W", "_", "2", "0", "2", "0",
       "0", "6", "1", "7", "1", "1", "4", "8", "0", "2", "_", "b", "d", "a",
       "0", "1", ",", "s", "y", "n", "o", "p", ".", "j", "s", "o", "n", ".",
       "b", "z", "2">>,
     <<"Z", "_", "_", "C", "_", "E", "D", "Z", "W", "_", "l", "a", "t", "e",
       "s", "t", "_", "b", "d", "a", "0", "1", ",", "s", "y", "n", "o", "p",
       ".", "j", "s", "o", "n", ".", "b", "z", "2">>,
     <<"Z", "_", "C", "A", "P", "_", "C", "_", "E", "D", "Z", "W", "_", "L",
       "A", "T", "E", "S", "T", "_", "P", "V", "W", ".", "z", "i", "p">>}

\* a name from the tests, as it is, after another character, before a
\* suffix, or before a newline
FileNames ==
    TestNames
        \cup {<<"x">> \o name : name \in TestNames}
        \cup {name \o <<".", "1">> : name \in TestNames}
        \cup {name \o <<"\n">> : name \in TestNames}

NoLookup == <<>>

LookupInit ==
    /\ gp_filename = <<>>
    /\ gp_result = None
    /\ gp_first = NoLookup
    /\ gp_calls = 0

\* api.parse: get_parser on the name of the path
GetParser(filename) ==
    /\ gp_calls < MaxLookups
    /\ gp_calls' = gp_calls + 1
    /\ gp_filename' = filename
    /\ \E parser \in {get_parser(filename)} :
          /\ gp_result' = parser
          /\ gp_first' = IF gp_first = NoLookup
                         THEN <<[filename |-> filename, result |-> parser]>>
                         ELSE gp_first

LookupParser == (\E filename \in FileNames : GetParser(filename)) /\ UNCHANGED notLookup

LookupNext == LookupParser

\* the entries of the table whose pattern matches a name from its start
Matching(filename) ==
    {i \in 1..Len(parsers) : Match(parsers[i].pattern, filename)}

\* C17: get_parser returns the decoder of the first entry in table order
\* whose pattern matches the file name from its start and None when there is
\* none: a name that starts with a character no pattern starts with has no
\* decoder, and of the names of the tests only the synoptic one with "latest"
\* for its digits has none; a file name looked up again has the result it had
\* before.
C17_FirstMatchInTableOrder ==
    gp_calls > 0 =>
        /\ Matching(gp_filename) = {} => gp_result = None
        /\ Matching(gp_filename) # {} =>
              gp_result = parsers[CHOOSE i \in Matching(gp_filename) :
                                     \A j \in Matching(gp_filename) : i <= j].parser
        /\ Head(gp_filename) = "x" => gp_result = None
        /\ gp_filename \in TestNames =>
              (gp_result = None <=> TextAt(gp_filename, 11, <<"l", "a", "t", "e", "s", "t">>))
        /\ gp_first[1].filename = gp_filename => gp_result = gp_first[1].result

\* a name of the synoptic decoder looked up twice
C17_Witness ==
    /\ gp_calls = 2
    /\ gp_first[1].filename = gp_filename
    /\ gp_result = "SYNOPParser"

(***************************************************************************)
(* The handles of a decode: parse of every decoder as the statements that  *)
(* open, close, check and yield (parsers.py)                               *)
(***************************************************************************)
MaxItems == 2

\* with ... as: the handle opened at the head of a with statement, closed
\* when the statement is left
Open(handle) == [op |-> "open", handle |-> handle]
Close == [op |-> "close"]
\* tar.extractfile: a reader over the handle of the archive, with none of
\* its own
View(handle) == [op |-> "view", handle |-> handle]
\* a statement that can raise: an assert, a lookup, the parsing of an item
Check == [op |-> "check"]
\* the head of the record loop: the next item, or past the loop when there
\* is none; the end of its body
ForNext(past) == [op |-> "next", to |-> past]
Jump(to) == [op |-> "jump", to |-> to]
Yield == [op |-> "yield"]

Programs ==
    [MOSMIXParser |->
        <<Open("archive"), Check, Open("member"),
          ForNext(8), Check, Yield, Jump(4), Close, Close>>,
     SYNOPParser |->
        <<Open("file"), ForNext(6), Check, Yield, Jump(2), Close>>,
     CurrentObservationsParser |->
        <<Open("file"), Check, ForNext(7), Check, Yield, Jump(3), Close>>,
     ObservationsParser |->
        <<Open("archive"), Check, Open("metadata"), Check, Close, Check,
          Open("product"), ForNext(12), Check, Yield, Jump(8), Close, Close>>,
     TenMinutesObservationsParser |->
        <<Open("archive"), Check, Check, Open("meta archive"), Open("metadata"),
          Check, Close, Close, Check, Open("product"),
          ForNext(15), Check, Yield, Jump(11), Close, Close>>,
     RADOLANParser |->
        <<Open("archive"), ForNext(7), View("archive"), Check, Yield, Jump(2),
          Close>>,
     CAPParser |->
        <<Open("archive"), ForNext(8), Open("member"), Check, Yield, Close,
          Jump(2), Close>>]

Decoders == DOMAIN Programs

\* a mutant of Unwind: the with statements are left without closing
UnwindKept(open) == open

\* an exception, GeneratorExit included, leaves every with statement it
\* passes through, and each closes its handle
RECURSIVE Unwind(_)
Unwind(open) ==
    IF open = <<>> THEN <<>> ELSE Unwind(SubSeq(open, 1, Len(open) - 1))

HandlesInit ==
    /\ hd_decoder = None
    /\ hd_status = "idle"
    /\ hd_pc = 0
    /\ hd_open = <<>>
    /\ hd_views = {}
    /\ hd_items = 0
    /\ hd_opened = 0

\* parse(path): the generator is made, no statement of parse has run
HandleCreate(decoder) ==
    /\ hd_status = "idle"
    /\ hd_decoder' = decoder
    /\ hd_status' = "created"
    /\ hd_pc' = 1
    /\ UNCHANGED <<hd_open, hd_views, hd_items, hd_opened>>

\* next() by the caller
HandleNext ==
    /\ hd_status \in {"created", "suspended"}
    /\ hd_status' = "running"
    /\ UNCHANGED <<hd_decoder, hd_pc, hd_open, hd_views, hd_items, hd_opened>>

\* the statement at hd_pc, while the generator runs
Statement == Programs[hd_decoder][hd_pc]
Running(op) ==
    /\ hd_status = "running"
    /\ hd_pc <= Len(Programs[hd_decoder])
    /\ Statement.op = op

HandleOpen ==
    /\ Running("open")
    /\ hd_open' = Append(hd_open, Statement.handle)
    /\ hd_opened' = hd_opened + 1
    /\ hd_pc' = hd_pc + 1
    /\ UNCHANGED <<hd_decoder, hd_status, hd_views, hd_items>>

HandleView ==
    /\ Running("view")
    /\ hd_views' = hd_views \cup {Statement.handle}
    /\ hd_pc' = hd_pc + 1
    /\ UNCHANGED <<hd_decoder, hd_status, hd_open, hd_items, hd_opened>>

HandleClose ==
    /\ Running("close")
    /\ hd_open' = SubSeq(hd_open, 1, Len(hd_open) - 1)
    /\ hd_pc' = hd_pc + 1
    /\ UNCHANGED <<hd_decoder, hd_status, hd_views, hd_items, hd_opened>>

HandleCheck(raises) ==
    /\ Running("check")
    /\ IF raises
       THEN /\ hd_status' = "failed"
            /\ hd_open' = Unwind(hd_open)
            /\ UNCHANGED hd_pc
       ELSE /\ hd_pc' = hd_pc + 1
            /\ UNCHANGED <<hd_status, hd_open>>
    /\ UNCHANGED <<hd_decoder, hd_views, hd_items, hd_opened>>

HandleForNext(more) ==
    /\ Running("next")
    /\ more => hd_items < MaxItems
    /\ hd_pc' = IF more THEN hd_pc + 1 ELSE Statement.to
    /\ hd_items' = IF more THEN hd_items + 1 ELSE hd_items
    /\ UNCHANGED <<hd_decoder, hd_status, hd_open, hd_views, hd_opened>>

HandleJump ==
    /\ Running("jump")
    /\ hd_pc' = Statement.to
    /\ UNCHANGED <<hd_decoder, hd_status, hd_open, hd_views, hd_items, hd_opened>>

HandleYield ==
    /\ Running("yield")
    /\ hd_status' = "suspended"
    /\ hd_pc' = hd_pc + 1
    /\ UNCHANGED <<hd_decoder, hd_open, hd_views, hd_items, hd_opened>>

\* the end of parse: StopIteration
HandleReturn ==
    /\ hd_status = "running"
    /\ hd_pc > Len(Programs[hd_decoder])
    /\ hd_status' = "exhausted"
    /\ UNCHANGED <<hd_decoder, hd_pc, hd_open, hd_views, hd_items, hd_opened>>

\* the caller gives the generator up: close(), or the last reference to it
\* dropped; GeneratorExit is raised at the yield it is suspended at
HandleAbandon ==
    /\ hd_status \in {"created", "suspended"}
    /\ hd_status' = "closed"
    /\ hd_open' = Unwind(hd_open)
    /\ UNCHANGED <<hd_decoder, hd_pc, hd_views, hd_items, hd_opened>>

CreateDecode == (\E decoder \in Decoders : HandleCreate(decoder)) /\ UNCHANGED notHandles
NextRecord == HandleNext /\ UNCHANGED notHandles
OpenHandle == HandleOpen /\ UNCHANGED notHandles
ViewMember == HandleView /\ UNCHANGED notHandles
CloseHandle == HandleClose /\ UNCHANGED notHandles
CheckStatement == (\E raises \in BOOLEAN : HandleCheck(raises)) /\ UNCHANGED notHandles
LoopHead == (\E more \in BOOLEAN : HandleForNext(more)) /\ UNCHANGED notHandles
LoopEnd == HandleJump /\ UNCHANGED notHandles
YieldRecord == HandleYield /\ UNCHANGED notHandles
ReturnFromParse == HandleReturn /\ UNCHANGED notHandles
AbandonDecode == HandleAbandon /\ UNCHANGED notHandles

HandlesNext ==
    \/ CreateDecode \/ NextRecord \/ OpenHandle \/ ViewMember \/ CloseHandle
    \/ CheckStatement \/ LoopHead \/ LoopEnd \/ YieldRecord \/ ReturnFromParse
    \/ AbandonDecode

\* the handles and member readers that can still be read from
StillOpen == {hd_open[i] : i \in 1..Len(hd_open)}
ViewsOpen == hd_views \cap StillOpen

\* C18: once the record sequence of a decoder is exhausted, given up by the
\* caller or ended by an exception, no handle the decode opened is open.
C18_HandlesReleased ==
    hd_status \in {"exhausted", "closed", "failed"} =>
        /\ StillOpen = {}
        /\ ViewsOpen = {}

\* a decode given up at a yield inside two with statements
C18_Witness ==
    /\ hd_status = "closed"
    /\ hd_opened = 2
    /\ hd_items = 1
    /\ hd_open = <<>>

(***************************************************************************)
(* MOSMIXParser: the order of the document (parsers.py)                    *)
(***************************************************************************)
\* '<product identifier>:<issue timestamp>', as the pieces it is made of
FullSources == {<<product, ":", issued>> : product \in ProductIds, issued \in IssueTimes}

\* an event of the kind was handled in the step
Handled(kind) == mx_events' = mx_events + 1 /\ mx_last' = kind

\* the four orders of events that abort the decode
AbortsOutOfOrder ==
    /\ (Handled("ProductID") /\ mx_source # NoSource) => mx_status' = "AssertionError"
    /\ (Handled("IssueTime") /\ mx_source = NoSource) => mx_status' = "AssertionError"
    /\ (Handled("ForecastTimeSteps") /\ mx_timestamps # NoTimestamps) =>
          mx_status' = "AssertionError"
    /\ (Handled("Placemark") /\ (mx_source = NoSource \/ mx_timestamps = NoTimestamps)) =>
          mx_status' = "AssertionError"

\* C19 as stated: every record emitted has the source
\* '<product identifier>:<issue timestamp>', so none is emitted before the
\* product identifier, the issue timestamp and the timestamp list were seen;
\* a second product identifier, an issue timestamp before the product
\* identifier, a second timestamp list, and a station descriptor before the
\* product identifier or the timestamp list abort the decode.
C19_SourceAndOrder ==
    /\ [](\A i \in 1..Len(mx_out) :
             /\ mx_out[i]["source"] \in FullSources
             /\ mx_timestamps # NoTimestamps)
    /\ [][AbortsOutOfOrder]_vars

\* the Placemark handled last, where the decode had its timestamps and source
LastPlacemark ==
    /\ mx_last = "Placemark"
    /\ mx_timestamps # NoTimestamps
    /\ mx_source # NoSource

\* C20: a station descriptor without coordinates yields no records and
\* raises nothing, so the decode goes on with the stations after it; a
\* station handled after one is emitted as any other, one record per
\* timestamp.
C20_StationWithoutCoordinates ==
    /\ (LastPlacemark /\ ~mx_place[1].point) =>
          /\ mx_status = "running"
          /\ mx_out = <<>>
          /\ Last(mx_yields) = 0
    /\ (LastPlacemark /\ mx_place[1].point /\ mx_status = "running") =>
          /\ Len(mx_out) = Len(mx_timestamps)
          /\ Last(mx_yields) = Len(mx_timestamps)

\* a station without coordinates between two stations that were emitted
C20_Witness ==
    /\ mx_status = "running"
    /\ Len(mx_yields) = 3
    /\ mx_yields[1] > 0 /\ mx_yields[2] = 0 /\ mx_yields[3] > 0
    /\ mx_last = "Placemark"
    /\ mx_out # <<>>

\* the columns the data of a station hold
ColumnsOf(place) == {ELEMENTS[place.forecasts[k].elementName] : k \in KnownForecasts(place)}

\* C29 as stated: a station with coordinates whose data lack the
\* precipitation, the wind direction or the cloud cover element, with arrays
\* of the length of the timestamp list, yields one record per timestamp and
\* the decode goes on.
C29_OmittedElement ==
    (/\ LastPlacemark
     /\ mx_place[1].point
     /\ \A k \in KnownForecasts(mx_place[1]) :
           Len(mx_place[1].forecasts[k].value) = Len(mx_timestamps)
     /\ ~(SanitizedKeys \subseteq ColumnsOf(mx_place[1]))) =>
        /\ mx_status = "running"
        /\ Len(mx_out) = Len(mx_timestamps)
        /\ Last(mx_yields) = Len(mx_timestamps)

(***************************************************************************)
(* Specifications: one per component                                       *)
(***************************************************************************)
\* any sequence of load / parse_station_list calls on one converter
InitStations == StationInit /\ MosmixInit /\ CloudInit /\ RadolanIdle /\ PressureInit /\ PrecipInit /\ TenMinutesInit /\ SynopInit /\ HourlyInit /\ LookupInit /\ HandlesInit
SpecStations == InitStations /\ [][StationNext]_vars

\* one load of the list in st_html
InitStationsLoad == StationLoadInit /\ MosmixInit /\ CloudInit /\ RadolanIdle /\ PressureInit /\ PrecipInit /\ TenMinutesInit /\ SynopInit /\ HourlyInit /\ LookupInit /\ HandlesInit
SpecStationsLoad == InitStationsLoad /\ [][LoadPending]_vars

\* one forecast document, event by event
InitMosmix == MosmixInit /\ ResolverInit /\ CloudInit /\ RadolanIdle /\ PressureInit /\ PrecipInit /\ TenMinutesInit /\ SynopInit /\ HourlyInit /\ LookupInit /\ HandlesInit
SpecMosmix == InitMosmix /\ [][MosmixNext]_vars

\* records of the four decoders that emit a cloud cover
InitCloud == CloudInit /\ StationInit /\ MosmixInit /\ RadolanIdle /\ PressureInit /\ PrecipInit /\ TenMinutesInit /\ SynopInit /\ HourlyInit /\ LookupInit /\ HandlesInit
SpecCloudCover == InitCloud /\ [][CloudNext]_vars

\* one radar archive, member by member
InitRadolan == RadolanInit /\ StationInit /\ MosmixInit /\ CloudInit /\ PressureInit /\ PrecipInit /\ TenMinutesInit /\ SynopInit /\ HourlyInit /\ LookupInit /\ HandlesInit
SpecRadolan == InitRadolan /\ [][RadolanNext]_vars

\* the rows of one pressure file
InitPressure == PressureInit /\ StationInit /\ MosmixInit /\ CloudInit /\ RadolanIdle /\ PrecipInit /\ TenMinutesInit /\ SynopInit /\ HourlyInit /\ LookupInit /\ HandlesInit
SpecPressure == InitPressure /\ [][PressureNext]_vars

\* the rows of one precipitation file
InitPrecip == PrecipInit /\ StationInit /\ MosmixInit /\ CloudInit /\ RadolanIdle /\ PressureInit /\ TenMinutesInit /\ SynopInit /\ HourlyInit /\ LookupInit /\ HandlesInit
SpecPrecipitation == InitPrecip /\ [][PrecipNext]_vars

\* one ten-minute file, decoded twice
InitTenMinutes == TenMinutesInit /\ ResolverInit /\ MosmixInit /\ CloudInit /\ RadolanIdle /\ PressureInit /\ PrecipInit /\ SynopInit /\ HourlyInit /\ LookupInit /\ HandlesInit
SpecTenMinutes == InitTenMinutes /\ [][TenMinutesNext]_vars

InitSynop == SynopInit /\ ResolverInit /\ MosmixInit /\ CloudInit /\ RadolanIdle /\ PressureInit /\ PrecipInit /\ TenMinutesInit /\ HourlyInit /\ LookupInit /\ HandlesInit

SpecSynop == InitSynop /\ [][SynopNext]_vars

InitHourly == HourlyInit /\ ResolverInit /\ MosmixInit /\ CloudInit /\ RadolanIdle /\ PressureInit /\ PrecipInit /\ TenMinutesInit /\ SynopInit /\ LookupInit /\ HandlesInit

SpecHourly == InitHourly /\ [][HourlyNext]_vars

InitLookup == LookupInit /\ StationInit /\ MosmixInit /\ CloudInit /\ RadolanIdle /\ PressureInit /\ PrecipInit /\ TenMinutesInit /\ SynopInit /\ HourlyInit /\ HandlesInit

SpecLookup == InitLookup /\ [][LookupNext]_vars

InitHandles == HandlesInit /\ StationInit /\ MosmixInit /\ CloudInit /\ RadolanIdle /\ PressureInit /\ PrecipInit /\ TenMinutesInit /\ SynopInit /\ HourlyInit /\ LookupInit

SpecHandles == InitHandles /\ [][HandlesNext]_vars

\* SPECS-END
=============================================================================
